---- MODULE Spec2Model ----
(***************************************************************************)
(* The standard research graph of backend/src/agent/graph.py as a state    *)
(* machine: one action per LangGraph node, each followed by the routing    *)
(* function build_graph attaches to it.  The state is the part of          *)
(* OverallState (state.py) the nodes and routers read or write, the        *)
(* Configuration and the process-wide rag_config.                           *)
(*                                                                         *)
(* Optional values are sequences of length 0 (None / key absent) or 1.     *)
(* JSON values that are not strings are written as tagged strings:         *)
(* "<0>", "<null>", "<7>", "<true>", "<false>".                             *)
(***************************************************************************)
EXTENDS Integers, Sequences, FiniteSets, TLC

\* ------------------------------------------------------------------ bounds
\* Ceilings (state and configured max_research_loops) range over 0..MaxLoops.
MaxLoops == 2
\* Requested query counts (initial_search_query_count) range over 0..MaxQueries.
MaxQueries == 2
\* The continuation counter of finalize_answer's while loop wraps at this value.
ContinuationWrap == 2

\* ------------------------------------------------------- program constants
\* Configuration.number_of_initial_queries default.
NumberOfInitialQueries == 3
\* evaluate_research: the ceiling used when neither state nor configuration has one.
DefaultMaxLoops == 3

\* ----------------------------------------------------------------- helpers
None == <<>>
Some(v) == <<v>>
IsNone(x) == x = <<>>
Get(x) == x[1]

\* Python slice seq[:n] for n >= 0.
Take(seq, n) == SubSeq(seq, 1, IF n < Len(seq) THEN n ELSE Len(seq))
\* Python slice seq[1:].
Rest(seq) == IF seq = <<>> THEN <<>> ELSE Tail(seq)

\* Python truthiness of a JSON value (strings and tagged non-strings).
Truthy(v) == v \notin {"", "<0>", "<null>", "<false>"}

\* str(v) for a JSON value.
Str(v) ==
    CASE v = "<0>" -> "0"
      [] v = "<7>" -> "7"
      [] v = "<null>" -> "None"
      [] v = "<true>" -> "True"
      [] v = "<false>" -> "False"
      [] OTHER -> v

\* str.strip() on the strings the model uses.
Strip(s) ==
    CASE s = " " -> ""
      [] s = " q2 " -> "q2"
      [] OTHER -> s

VARIABLES
    pc,                          \* the node LangGraph runs next, "END" or "aborted"
    prev_node,                   \* the node that ran last ("START" before the first)
    last_update,                 \* the keys of the update the last node returned
    steps,                       \* number of node executions so far
    messages,                    \* OverallState.messages
    search_query,                \* OverallState.search_query
    initial_search_query_count,  \* OverallState.initial_search_query_count
    rag_resources,               \* OverallState.rag_resources
    rag_documents,               \* OverallState.rag_documents
    web_research_result,         \* OverallState.web_research_result
    is_sufficient,               \* OverallState.is_sufficient
    follow_up_queries,           \* OverallState.follow_up_queries
    research_loop_count,         \* OverallState.research_loop_count
    max_research_loops,          \* OverallState.max_research_loops
    configurable,                \* Configuration of the run
    rag_config,                  \* the global RAGConfig instance
    continuations,               \* finalize_answer: while-loop iterations so far, wrapped
    \* ---- long-report fields of OverallState (enhanced_long_report_nodes.py,
    \* ---- long_report_nodes.py)
    report_pc,                   \* the long-report node that runs next
    report_prev,                 \* the long-report node that ran last
    is_long_report,              \* OverallState.is_long_report (None: key absent)
    target_word_count,           \* OverallState.target_word_count (None: key absent)
    report_plan,                 \* OverallState.report_plan (None: no plan)
    current_section,             \* OverallState.current_section
    completed_sections,          \* OverallState.completed_sections
    sections_completed_count,    \* OverallState.sections_completed_count
    current_section_index,       \* OverallState.current_section_index
    next_section_index,          \* OverallState.next_section_index
    processing_complete,         \* the processing_complete key of the state
    external_calls,              \* generator / retrieval calls the last node made
    failed_calls,                \* the external calls of that node that failed
    plan_response,               \* the generator's reply the planner consumed
    final_report,                \* OverallState.final_report
    \* ---- section research fields of OverallState and what retrieval saw
    executed_queries,            \* OverallState.executed_queries (normalized)
    section_is_sufficient,       \* OverallState.section_is_sufficient
    section_follow_up_queries,   \* OverallState.section_follow_up_queries
    section_research_count,      \* OverallState.section_research_count
    max_section_research_loops,  \* OverallState.max_section_research_loops
    retrieval_queries,           \* the queries the last node handed to retrieval
    issued_queries,              \* the normalized queries retrieval saw before
    extra_research,              \* research runs of this section after the first
    \* ---- report workflows that run side by side
    reports                      \* per workflow: its OverallState's query fields

\* The fields the standard research graph works on, without the conversation.
graph_vars == <<pc, prev_node, last_update, steps, search_query,
                initial_search_query_count, rag_resources, rag_documents,
                web_research_result, is_sufficient, follow_up_queries,
                research_loop_count, max_research_loops, configurable,
                rag_config, continuations>>

\* The fields only the long-report nodes work on.
report_vars == <<report_pc, report_prev, is_long_report, target_word_count,
                 report_plan, current_section, completed_sections,
                 sections_completed_count, current_section_index,
                 next_section_index, processing_complete, external_calls,
                 failed_calls,
                 plan_response, final_report>>

\* The fields of the research of one section, and the retrieval calls.
section_vars == <<executed_queries, section_is_sufficient,
                  section_follow_up_queries, section_research_count,
                  max_section_research_loops, retrieval_queries,
                  issued_queries, extra_research, reports>>

vars == <<messages, graph_vars, report_vars, section_vars>>

\* No section is being researched, retrieval has seen no query and no
\* workflows run side by side.
SectionIdle ==
    /\ executed_queries = {}
    /\ section_is_sufficient = FALSE
    /\ section_follow_up_queries = <<>>
    /\ section_research_count = 0
    /\ max_section_research_loops = <<>>
    /\ retrieval_queries = <<>>
    /\ issued_queries = {}
    /\ extra_research = 0
    /\ reports = <<>>

\* ------------------------------------------------------------ RAG routing
\* RAGConfig.__init__: enabled = bool(provider).
Enabled(cfg) == cfg.provider # ""

\* RAGConfig.validate
validate(cfg) ==
    IF ~Enabled(cfg) THEN TRUE
    ELSE IF cfg.provider = "ragflow"
         THEN cfg.ragflow_api_url /\ cfg.ragflow_api_key
         ELSE FALSE

\* builder.is_rag_enabled
is_rag_enabled(cfg) == Enabled(cfg) /\ validate(cfg)

\* rag_nodes.has_rag_resources
has_rag_resources(resources) == resources # <<>>

\* should_use_rag testing rag_config.enabled where it should call
\* is_rag_enabled(): an unvalidated configuration is routed to RAG.
should_use_rag_unvalidated(cfg, resources) ==
    IF ~Enabled(cfg) THEN "web_research" ELSE "rag_retrieve"

\* A router that answers "reflection": the round is reflected on without
\* any retrieval.
should_use_rag_no_retrieval(cfg, resources) == "reflection"

\* rag_nodes.should_use_rag
should_use_rag(cfg, resources) ==
    IF ~is_rag_enabled(cfg) THEN "web_research"
    ELSE IF has_rag_resources(resources) THEN "rag_retrieve"
    ELSE IF Enabled(cfg) THEN "rag_retrieve"
    ELSE "web_research"

\* rag_fallback_to_web without the test of rag_config.enable_fallback.
rag_fallback_to_web_always(cfg, documents) ==
    IF documents = <<>> THEN "web_research" ELSE "reflection"

\* rag_nodes.rag_fallback_to_web
rag_fallback_to_web(cfg, documents) ==
    IF documents = <<>> /\ cfg.enable_fallback THEN "web_research"
    ELSE IF documents # <<>> THEN "reflection"
    ELSE "reflection"

\* utils.get_research_topic: the topic is the content of the user's message.
get_research_topic(msgs) == IF msgs = <<>> THEN "" ELSE msgs[1]

\* The research_topic of generate_query / reflection / finalize_answer.
ResearchTopic(msgs) ==
    IF msgs = <<>> THEN "General research topic" ELSE get_research_topic(msgs)

\* -------------------------------------------------- generate_query parsing
\* A generator response to generate_query, by what json.loads makes of it:
\*   kind  "json_dict"  a JSON object; query says what its 'query' key holds
\*                      ("list", "str", "other", "absent"), items the value
\*         "json_other" valid JSON that is no object
\*         "text"       no valid JSON; lines are content.strip().split('\n')
QResp(kind, query, items, lines) ==
    [kind |-> kind, query |-> query, items |-> items, lines |-> lines]

QueryResponses ==
    { QResp("json_dict", "list", it, <<>>) :
        it \in { <<>>, <<"q1", " q2 ">>, <<"", "<0>">>, <<" ">> } }
    \cup { QResp("json_dict", "str", it, <<>>) : it \in { <<" q2 ">> } }
    \cup { QResp("json_dict", "other", <<"<7>">>, <<>>),
           QResp("json_dict", "absent", <<>>, <<>>),
           QResp("json_other", "absent", <<>>, <<>>) }
    \cup { QResp("text", "absent", <<>>, ln) :
        ln \in { <<"">>, <<"1. q1", "- q2", "# note">>,
                 <<"{", "\"query\": 1", "}">>, <<"1.", "// note">> } }

\* [str(q).strip() for q in query_list if q]
RECURSIVE StripTruthy(_)
StripTruthy(items) ==
    IF items = <<>> THEN <<>>
    ELSE IF Truthy(Head(items))
         THEN <<Strip(Str(Head(items)))>> \o StripTruthy(Tail(items))
         ELSE StripTruthy(Tail(items))

\* line.startswith('#') or '//' or '{' or '}'
StartsWithSkipped(line) == line \in {"# note", "// note", "{", "}"}

\* line.lstrip('0123456789.-• ')
LStripNumbering(line) ==
    CASE line = "1. q1" -> "q1"
      [] line = "- q2" -> "q2"
      [] line = "- f3" -> "f3"
      [] line = "1." -> ""
      [] OTHER -> line

\* '"' in line
HasQuote(line) == line = "\"query\": 1"

\* generate_query: the line-based fallback (the except branch).
RECURSIVE QueryLines(_)
QueryLines(lines) ==
    IF lines = <<>> THEN <<>>
    ELSE LET line == Strip(Head(lines))
             stripped == LStripNumbering(line)
             keep == /\ line # ""
                     /\ ~StartsWithSkipped(line)
                     /\ stripped # ""
                     /\ ~HasQuote(stripped)
         IN (IF keep THEN <<stripped>> ELSE <<>>) \o QueryLines(Tail(lines))

\* generate_query: the queries parsed from the response (before the fallback
\* to the topic and the slice).
ParseQueries(resp) ==
    IF resp.kind = "json_dict"
    THEN IF resp.query = "list" THEN StripTruthy(resp.items)
         ELSE IF resp.query = "str" THEN <<Strip(resp.items[1])>>
         ELSE <<>>
    ELSE IF resp.kind = "json_other" THEN <<>>
    ELSE QueryLines(resp.lines)

\* generate_query: the search_query list of the returned update.
generate_query(resp, topic, count) ==
    LET parsed == ParseQueries(resp)
        queries == IF parsed = <<>> THEN <<topic>> ELSE parsed
    IN Take(queries, count)

\* ------------------------------------------------------ reflection parsing
\* A generator response to reflection:
\*   kind "json_dict": is_sufficient is the JSON value of that key ("absent"
\*        when the key is missing); follow_up says what 'follow_up_queries'
\*        holds ("list", "str", "other", "absent") and items its value
\*   kind "json_other": valid JSON that is no object (.get raises
\*        AttributeError, so the lines are parsed)
\*   kind "text": no valid JSON; lines are content.strip().split('\n')
RResp(kind, suff, follow_up, items, lines) ==
    [kind |-> kind, is_sufficient |-> suff, follow_up |-> follow_up,
     items |-> items, lines |-> lines]

ReflectionResponses ==
    { RResp("json_dict", "<true>", "list", <<>>, <<>>),
      RResp("json_dict", "<false>", "list", <<>>, <<>>),
      RResp("json_dict", "<false>", "list", <<"f1", "f2">>, <<>>),
      RResp("json_dict", "absent", "absent", <<>>, <<>>),
           RResp("json_dict", "false", "str", <<"f1">>, <<>>),
           RResp("json_dict", "<null>", "other", <<"<7>">>, <<>>),
           RResp("json_other", "absent", "absent", <<>>, <<"[1, 2]">>) }
    \cup { RResp("text", "absent", "absent", <<>>, ln) :
        ln \in { <<"">>,
                 <<"SUFFICIENT: yes", "KNOWLEDGE_GAP: g">>,
                 <<"SUFFICIENT: no", "KNOWLEDGE_GAP: g",
                   "FOLLOW_UP_QUERIES: f1, f2">>,
                 <<"1. true", "FOLLOW_UP_QUERIES:", "- f3">>,
                 <<"SUFFICIENT: no",
                   "FOLLOW_UP_QUERIES: [list of queries if not sufficient]">>,
                 <<"plain", "3. f3", "- f3">> } }

\* line.upper().startswith('SUFFICIENT:') or line.upper().startswith('1.')
IsSufficientLine(line) == line \in {"SUFFICIENT: yes", "SUFFICIENT: no", "1. true"}
\* 'yes' in line.lower() or 'true' in line.lower()
SaysYes(line) == line \in {"SUFFICIENT: yes", "1. true"}
\* line.upper().startswith('KNOWLEDGE_GAP:') or line.upper().startswith('2.')
IsGapLine(line) == line = "KNOWLEDGE_GAP: g"
\* line.upper().startswith('FOLLOW_UP_QUERIES:') or line.upper().startswith('3.')
IsFollowUpLine(line) ==
    line \in {"FOLLOW_UP_QUERIES: f1, f2", "FOLLOW_UP_QUERIES:",
              "FOLLOW_UP_QUERIES: [list of queries if not sufficient]", "3. f3"}
\* line.split(':', 1)[-1].strip()
AfterColon(line) ==
    CASE line = "FOLLOW_UP_QUERIES: f1, f2" -> "f1, f2"
      [] line = "FOLLOW_UP_QUERIES:" -> ""
      [] line = "FOLLOW_UP_QUERIES: [list of queries if not sufficient]" ->
            "[list of queries if not sufficient]"
      [] OTHER -> line
\* [q.strip() for q in query_text.split(',') if q.strip()]
SplitCommas(text) ==
    CASE text = "f1, f2" -> <<"f1", "f2">>
      [] text = "" -> <<>>
      [] OTHER -> <<text>>
\* line.startswith('-') or line.startswith('•') or line[0].isdigit()
IsBulletLine(line) == line \in {"- f3", "- q2", "1. q1", "1."}

\* reflection: the line-based fallback, folded over the lines from the
\* defaults acc = <<is_sufficient, follow_up_queries>>.
RECURSIVE ReflectionLines(_, _)
ReflectionLines(lines, acc) ==
    IF lines = <<>> THEN acc
    ELSE LET line == Strip(Head(lines))
             next ==
                IF IsSufficientLine(line)
                THEN <<IF SaysYes(line) THEN "<true>" ELSE "<false>", acc[2]>>
                ELSE IF IsGapLine(line) THEN acc
                ELSE IF IsFollowUpLine(line)
                THEN IF AfterColon(line) # ""
                        /\ AfterColon(line) # "[list of queries if not sufficient]"
                     THEN <<acc[1], SplitCommas(AfterColon(line))>>
                     ELSE acc
                ELSE IF line # "" /\ IsBulletLine(line)
                        /\ LStripNumbering(line) # ""
                THEN <<acc[1], Append(acc[2], LStripNumbering(line))>>
                ELSE acc
         IN ReflectionLines(Tail(lines), next)

\* reflection: <<is_sufficient, follow_up_queries>> of the returned update.
ParseReflection(resp) ==
    IF resp.kind = "json_dict"
    THEN << IF resp.is_sufficient = "absent" THEN "<false>" ELSE resp.is_sufficient,
            IF resp.follow_up = "list" THEN resp.items
            ELSE IF resp.follow_up = "str" THEN resp.items
            ELSE <<>> >>
    ELSE ReflectionLines(resp.lines, <<"<false>", <<>>>>)

\* ---------------------------------------------------------- loop governor
\* state.get("research_loop_count", 0) or 0
Count(rlc) == IF IsNone(rlc) THEN 0 ELSE Get(rlc)

\* next_loop_count without the `or 0`: a missing counter is stored as 0
\* instead of being counted.
next_loop_count_missing_uncounted(rlc) ==
    IF IsNone(rlc) THEN 0 ELSE Get(rlc) + 1

\* reflection: the research_loop_count it writes and returns.
next_loop_count(rlc) == Count(rlc) + 1

\* evaluate_research: the ceiling it compares against.
max_loops(state_max, cfg) ==
    LET chosen == IF ~IsNone(state_max) THEN state_max
                  ELSE cfg.max_research_loops
    IN IF ~IsNone(chosen) THEN Get(chosen) ELSE DefaultMaxLoops

\* evaluate_research without the governor: only a sufficient verdict ends
\* the research.
evaluate_research_ungoverned(suff, rlc, state_max, cfg) ==
    IF Truthy(suff) THEN "finalize_answer" ELSE "continue_research"

\* evaluate_research
evaluate_research(suff, rlc, state_max, cfg) ==
    IF Truthy(suff) \/ Count(rlc) >= max_loops(state_max, cfg)
    THEN "finalize_answer"
    ELSE "continue_research"

\* ------------------------------------------------------------------ inputs
Ceilings == 0..MaxLoops
QueryCounts == 0..MaxQueries

RagConfig(provider, url, key, fallback) ==
    [provider |-> provider, ragflow_api_url |-> url, ragflow_api_key |-> key,
     enable_fallback |-> fallback]

\* Environments: RAG_PROVIDER unset, ragflow with both / one of its
\* credentials, a provider that is not implemented.
RagConfigs ==
    { RagConfig("", FALSE, FALSE, TRUE),
      RagConfig("ragflow", TRUE, TRUE, TRUE),
      RagConfig("ragflow", TRUE, TRUE, FALSE),
      RagConfig("ragflow", TRUE, FALSE, TRUE),
      RagConfig("ragflow", FALSE, TRUE, FALSE),
      RagConfig("vikingdb", TRUE, TRUE, TRUE) }

\* What rag_tool.invoke does in rag_retrieve:
\*   "documents"     the formatted documents
\*   "no_results"    "No relevant information found in the knowledge base."
\*   "no_retriever"  "RAG is not configured or not available. ..."
\*   "search_error"  RAGSearchTool._run caught an exception of the retriever:
\*                   "Error occurred during knowledge base search: ..."
\*   "raises"        invoke itself raised (caught by rag_retrieve)
\*   "no_tool"       create_rag_tool returned None
RagOutcomes ==
    {"documents", "no_results", "no_retriever", "search_error", "raises", "no_tool"}

\* finish_reason of a chat response ("no_content": the result has no content
\* attribute, so finish_reason is never read).
FinishReasons == {"stop", "length", "no_content"}

\* The nodes that call llm.invoke outside any try block.
LLMNodes ==
    {"generate_query", "web_research", "reflection", "finalize_answer",
     "finalize_answer_continue"}

\* ---------------------------------------------------------- initial state
\* A run of the standard graph: no long-report node runs and the long-report
\* keys are absent from the state.
ReportIdle ==
    /\ report_pc = "idle"
    /\ report_prev = "START"
    /\ is_long_report = None
    /\ target_word_count = None
    /\ report_plan = None
    /\ current_section = None
    /\ completed_sections = <<>>
    /\ sections_completed_count = None
    /\ current_section_index = None
    /\ next_section_index = None
    /\ processing_complete = FALSE
    /\ external_calls = {}
    /\ failed_calls = {}
    /\ plan_response = None
    /\ final_report = None

\* research_graph.invoke(input, config): the caller supplies messages and,
\* optionally, rag_resources, initial_search_query_count, max_research_loops
\* and research_loop_count (0); START leads to generate_query.
Init ==
    /\ pc = "generate_query"
    /\ prev_node = "START"
    /\ last_update = {}
    /\ steps = 0
    /\ messages \in { <<>>, <<"AI in healthcare">> }
    /\ search_query = <<>>
    /\ initial_search_query_count \in {None} \cup {Some(n) : n \in QueryCounts}
    /\ rag_resources \in { <<>>, <<"rag://dataset/1">> }
    /\ rag_documents = <<>>
    /\ web_research_result = <<>>
    /\ is_sufficient = "<false>"
    /\ follow_up_queries = <<>>
    /\ research_loop_count \in {None, Some(0)}
    /\ max_research_loops \in {None} \cup {Some(n) : n \in Ceilings}
    /\ configurable \in
         [max_research_loops : {Some(n) : n \in Ceilings},
          number_of_initial_queries : {NumberOfInitialQueries}]
    /\ rag_config \in RagConfigs
    /\ continuations = 0
    /\ ReportIdle
    /\ SectionIdle

\* ------------------------------------------------------------------- nodes
\* generate_query, then the conditional edge should_use_rag.
GenerateQuery ==
    /\ pc = "generate_query"
    /\ \E resp \in QueryResponses :
         LET count == IF IsNone(initial_search_query_count)
                      THEN configurable.number_of_initial_queries
                      ELSE Get(initial_search_query_count)
         IN /\ search_query' =
                 generate_query(resp, ResearchTopic(messages), count)
    /\ pc' = should_use_rag(rag_config, rag_resources)
    /\ prev_node' = "generate_query"
    /\ last_update' = {"search_query"}
    /\ steps' = steps + 1
    /\ UNCHANGED <<messages, initial_search_query_count, rag_resources,
                   rag_documents, web_research_result, is_sufficient,
                   follow_up_queries, research_loop_count, max_research_loops,
                   configurable, rag_config, continuations, report_vars,
                   section_vars>>

\* rag_retrieve: the rag_documents of the returned update.
rag_retrieve(cfg, msgs, outcome) ==
    IF ~is_rag_enabled(cfg) THEN <<>>
    ELSE IF get_research_topic(msgs) = "" THEN <<>>
    ELSE IF outcome = "documents" THEN <<"documents">>
    ELSE IF outcome = "search_error" THEN <<"Error occurred">>
    ELSE <<>>

\* rag_retrieve, then the conditional edge rag_fallback_to_web.
RagRetrieve ==
    /\ pc = "rag_retrieve"
    /\ \E outcome \in RagOutcomes :
         rag_documents' = rag_retrieve(rag_config, messages, outcome)
    /\ pc' = rag_fallback_to_web(rag_config, rag_documents')
    /\ prev_node' = "rag_retrieve"
    /\ last_update' = {"rag_documents", "rag_enabled"}
    /\ steps' = steps + 1
    /\ UNCHANGED <<messages, search_query, initial_search_query_count,
                   rag_resources, web_research_result, is_sufficient,
                   follow_up_queries, research_loop_count, max_research_loops,
                   configurable, rag_config, continuations, report_vars,
                   section_vars>>

\* web_research (the search tool returns [] when the provider fails), then
\* the edge to reflection.
WebResearch ==
    /\ pc = "web_research"
    /\ web_research_result' = Append(web_research_result, "analysis")
    /\ pc' = "reflection"
    /\ prev_node' = "web_research"
    /\ last_update' = {"sources_gathered", "search_query", "web_research_result"}
    /\ steps' = steps + 1
    /\ UNCHANGED <<messages, search_query, initial_search_query_count,
                   rag_resources, rag_documents, is_sufficient,
                   follow_up_queries, research_loop_count, max_research_loops,
                   configurable, rag_config, continuations, report_vars,
                   section_vars>>

\* reflection, then the conditional edge evaluate_research.
Reflection ==
    /\ pc = "reflection"
    /\ \E resp \in ReflectionResponses :
         /\ is_sufficient' = ParseReflection(resp)[1]
         /\ follow_up_queries' = ParseReflection(resp)[2]
    /\ research_loop_count' = Some(next_loop_count(research_loop_count))
    /\ pc' = evaluate_research(is_sufficient', research_loop_count',
                               max_research_loops, configurable)
    /\ prev_node' = "reflection"
    /\ last_update' = {"is_sufficient", "knowledge_gap", "follow_up_queries",
                       "research_loop_count", "number_of_ran_queries"}
    /\ steps' = steps + 1
    /\ UNCHANGED <<messages, search_query, initial_search_query_count,
                   rag_resources, rag_documents, web_research_result,
                   max_research_loops, configurable, rag_config, continuations,
                   report_vars,
                   section_vars>>

\* continue_research, then the conditional edge should_use_rag.
ContinueResearch ==
    /\ pc = "continue_research"
    /\ IF follow_up_queries = <<>>
       THEN /\ last_update' = {}
            /\ UNCHANGED <<search_query, follow_up_queries>>
       ELSE /\ search_query' = <<Head(follow_up_queries)>>
            /\ follow_up_queries' = Rest(follow_up_queries)
            /\ last_update' = {"search_query", "follow_up_queries"}
    /\ pc' = should_use_rag(rag_config, rag_resources)
    /\ prev_node' = "continue_research"
    /\ steps' = steps + 1
    /\ UNCHANGED <<messages, initial_search_query_count, rag_resources,
                   rag_documents, web_research_result, is_sufficient,
                   research_loop_count, max_research_loops, configurable,
                   rag_config, continuations, report_vars,
                   section_vars>>

\* finalize_answer returns its update; the edge leads to END.
FinalizeReturn ==
    /\ messages' = Append(messages, "answer")
    /\ continuations' = 0
    /\ pc' = "END"
    /\ prev_node' = "finalize_answer"
    /\ last_update' = {"messages"}
    /\ steps' = steps + 1

\* finalize_answer up to the first test of its while loop.
FinalizeAnswer ==
    /\ pc = "finalize_answer"
    /\ \E finish_reason \in FinishReasons :
         IF finish_reason = "length"
         THEN /\ pc' = "finalize_answer_continue"
              /\ UNCHANGED <<messages, prev_node, last_update, steps,
                             continuations>>
         ELSE FinalizeReturn
    /\ UNCHANGED <<search_query, initial_search_query_count, rag_resources,
                   rag_documents, web_research_result, is_sufficient,
                   follow_up_queries, research_loop_count, max_research_loops,
                   configurable, rag_config, report_vars,
                   section_vars>>

\* finalize_answer: one iteration of `while finish_reason == "length"`.
FinalizeContinue ==
    /\ pc = "finalize_answer_continue"
    /\ \E finish_reason \in FinishReasons \ {"no_content"} :
         IF finish_reason = "length"
         THEN /\ continuations' = (continuations + 1) % ContinuationWrap
              /\ UNCHANGED <<pc, messages, prev_node, last_update, steps>>
         ELSE FinalizeReturn
    /\ UNCHANGED <<search_query, initial_search_query_count, rag_resources,
                   rag_documents, web_research_result, is_sufficient,
                   follow_up_queries, research_loop_count, max_research_loops,
                   configurable, rag_config, report_vars,
                   section_vars>>

\* llm.invoke (or LLMFactory.create_llm) raises inside a node: no node of
\* graph.py catches it, so the exception leaves research_graph.invoke.
NodeRaises ==
    /\ pc \in LLMNodes
    /\ pc' = "aborted"
    /\ prev_node' = IF pc = "finalize_answer_continue" THEN "finalize_answer" ELSE pc
    /\ last_update' = {}
    /\ UNCHANGED <<steps, messages, search_query, initial_search_query_count,
                   rag_resources, rag_documents, web_research_result,
                   is_sufficient, follow_up_queries, research_loop_count,
                   max_research_loops, configurable, rag_config, continuations,
                   report_vars,
                   section_vars>>

Next ==
    \/ GenerateQuery
    \/ RagRetrieve
    \/ WebResearch
    \/ Reflection
    \/ ContinueResearch
    \/ FinalizeAnswer
    \/ FinalizeContinue
    \/ NodeRaises

Spec == Init /\ [][Next]_vars

\* The interpreter keeps running: every external call returns or raises.
FairSpec == Init /\ [][Next]_vars /\ WF_vars(Next)

\* ------------------------------------------------------------------ claims
\* The ceiling evaluate_research is meant to enforce: the state's
\* max_research_loops if set, else the configured one.
EffectiveCeiling ==
    IF ~IsNone(max_research_loops) THEN Get(max_research_loops)
    ELSE Get(configurable.max_research_loops)

\* C1: whenever evaluate_research has routed to finalize_answer,
\* research_loop_count is at most the effective ceiling, for every ceiling
\* value >= 0 and every sequence of reflection verdicts.
C1_CountWithinCeilingAtFinalize ==
    (pc = "finalize_answer" /\ prev_node = "reflection")
        => Count(research_loop_count) <= EffectiveCeiling

\* C2: a run in which no reflection reports sufficient still eventually
\* executes finalize_answer.
C2_InsufficientStillFinalizes ==
    <>(Truthy(is_sufficient) \/ pc = "finalize_answer")

\* C3: once finalize_answer is entered it completes and the run reaches END,
\* for every generator behaviour (a run that an exception ends is not held
\* against the claim here).
C3_FinalizeCompletes ==
    (pc = "finalize_answer") ~> (pc \in {"END", "aborted"})

\* C4: after each reflection the route is finalize_answer exactly when
\* is_sufficient holds or research_loop_count has reached the ceiling in
\* force, and the loop never continues once research_loop_count has reached
\* the configured ceiling, whatever the caller put in the state.
C4_GovernorCannotBeOverridden ==
    /\ (prev_node = "reflection" /\ pc # "aborted")
          => (pc = "finalize_answer"
                <=> (Truthy(is_sufficient)
                     \/ Count(research_loop_count) >= EffectiveCeiling))
    /\ (pc = "continue_research")
          => Count(research_loop_count) < Get(configurable.max_research_loops)

\* C5: every execution of reflection that returns increases
\* research_loop_count by exactly 1, a missing counter counting as 0,
\* whichever way the generator's response is parsed.
C5_ReflectionIncrementsByOne ==
    [][(pc = "reflection" /\ pc' # "aborted")
          => research_loop_count' = Some(Count(research_loop_count) + 1)]_vars

\* A second reflection has run, and its response went through the line
\* fallback (only the fallback yields these follow-ups).
C5_Witness ==
    /\ prev_node = "reflection"
    /\ research_loop_count = Some(2)
    /\ follow_up_queries = <<"3. f3", "f3">>

\* C6: continue_research with follow-ups takes the first as search_query and
\* removes exactly it; with no follow-ups the run proceeds to finalize_answer
\* without a further retrieval round.
C6_ContinueConsumesOrFinalizes ==
    [][(pc = "continue_research")
          => IF follow_up_queries # <<>>
             THEN /\ search_query' = <<Head(follow_up_queries)>>
                  /\ follow_up_queries' = Tail(follow_up_queries)
             ELSE pc' = "finalize_answer"]_vars

\* C7: no failure of a generator or retrieval call inside a step aborts the
\* run: the step yields a neutral update and the graph goes on.
C7_NoStepFailureAborts == pc # "aborted"

\* C8: after rag_retrieve the next step is web_research when it ended with
\* zero documents and the fallback flag is enabled, and reflection otherwise;
\* web_research is always followed by reflection.
C8_FallbackWebBeforeReflection ==
    /\ (prev_node = "rag_retrieve")
          => pc = IF rag_documents = <<>> /\ rag_config.enable_fallback
                  THEN "web_research" ELSE "reflection"
    /\ (prev_node = "web_research" /\ pc # "aborted") => pc = "reflection"
    /\ (pc = "reflection") => prev_node \in {"rag_retrieve", "web_research"}

\* rag_retrieve has just ended with zero documents, the fallback is enabled
\* and web_research is the next step.
C8_Witness ==
    /\ prev_node = "rag_retrieve"
    /\ rag_documents = <<>>
    /\ rag_config.enable_fallback
    /\ pc = "web_research"

\* RAG is enabled and its provider validly configured.
RagEnabledAndConfigured ==
    /\ rag_config.provider # ""
    /\ rag_config.provider = "ragflow"
    /\ rag_config.ragflow_api_url
    /\ rag_config.ragflow_api_key

\* C9: should_use_rag returns "rag_retrieve" exactly when RAG is enabled and
\* validly configured and (the state has rag_resources or general RAG use is
\* configured), and "web_research" in every other case.
C9_RouterMatchesRule ==
    (prev_node \in {"generate_query", "continue_research"} /\ pc # "aborted")
      => pc = IF RagEnabledAndConfigured
                 /\ (rag_resources # <<>> \/ rag_config.provider # "")
              THEN "rag_retrieve" ELSE "web_research"

\* The router has sent a run without explicit resources to rag_retrieve.
C9_Witness ==
    /\ prev_node = "generate_query"
    /\ pc = "rag_retrieve"
    /\ rag_resources = <<>>

\* C10: generate_query always returns a search_query list with at least one
\* query, for every generator response and every requested query count.
C10_AtLeastOneQuery ==
    (prev_node = "generate_query" /\ pc # "aborted") => Len(search_query) >= 1

\* ===================================================== long-report pipeline
\* ------------------------------------------------------ request classifier
\* A message content is a sequence of text units.  The units stand for the
\* pieces of text detect_long_report_request tells apart:
\*   "3", "0"           decimal digits
\*   "wan_zi"           the two characters U+4E07 U+5B57 ("ten thousand characters")
\*   "qian_zi"          the two characters U+5343 U+5B57 ("thousand characters")
\*   "zi"               the character U+5B57 on its own
\*   " "                white space
\*   "words", "Words"   the word in lower case and capitalised
\*   "detailed report", "Detailed Report"   a long-report keyword, two casings
\*   "x"                any other text
Units ==
    {"3", "0", "wan_zi", "qian_zi", "zi", " ", "words", "Words",
     "detailed report", "Detailed Report", "x"}

\* Longest message content, in units.
MaxContentLen == 4

\* str.lower() on one unit.
Lower(u) ==
    CASE u = "Words" -> "words"
      [] u = "Detailed Report" -> "detailed report"
      [] OTHER -> u

\* long_report_keywords, as far as the units can spell them.
long_report_keywords == {"detailed report", "wan_zi"}

\* word_count_indicators.
word_count_indicators == {"wan_zi", "qian_zi", "words", "zi"}

\* `indicator in unit`: U+5B57 is the last character of wan_zi and qian_zi.
UnitContains(u, piece) ==
    \/ u = piece
    \/ piece = "zi" /\ u \in {"wan_zi", "qian_zi"}

\* any(content.lower() in keyword ...): the operands of `in` exchanged.
is_long_report_keyword_reversed(content) ==
    \/ content = <<>>
    \/ Len(content) = 1 /\ \E k \in long_report_keywords :
                              UnitContains(k, Lower(content[1]))

\* any(keyword in content.lower() for keyword in long_report_keywords)
is_long_report_keyword(content) ==
    \E i \in DOMAIN content : \E k \in long_report_keywords :
        UnitContains(Lower(content[i]), k)

\* any(indicator in content for indicator in word_count_indicators)
has_word_count(content) ==
    \E i \in DOMAIN content : \E ind \in word_count_indicators :
        UnitContains(content[i], ind)

IsDigit(u) == u \in {"0", "3"}

DigitValue(u) == IF u = "3" THEN 3 ELSE 0

\* int(digits) for a sequence of digit units.
RECURSIVE IntOf(_)
IntOf(digits) ==
    IF digits = <<>> THEN 0
    ELSE 10 * IntOf(SubSeq(digits, 1, Len(digits) - 1))
         + DigitValue(digits[Len(digits)])

\* The last position of the run of digits that starts at position i.
RECURSIVE DigitRunEnd(_, _)
DigitRunEnd(content, i) ==
    IF i < Len(content) /\ IsDigit(content[i + 1])
    THEN DigitRunEnd(content, i + 1)
    ELSE i

\* The first position after i that holds no white space.
RECURSIVE SkipSpace(_, _)
SkipSpace(content, i) ==
    IF i <= Len(content) /\ content[i] = " "
    THEN SkipSpace(content, i + 1)
    ELSE i

\* re.match of (\d+)<unit> at position i, with \s* between when spaces is
\* TRUE: the digits matched, or None.
MatchAt(content, i, unit, spaces) ==
    IF ~IsDigit(content[i]) THEN None
    ELSE LET e == DigitRunEnd(content, i)
             k == IF spaces THEN SkipSpace(content, e + 1) ELSE e + 1
         IN IF k <= Len(content) /\ content[k] = unit
            THEN Some(IntOf(SubSeq(content, i, e)))
            ELSE None

\* re.search: the match at the leftmost position that has one.
Search(content, unit, spaces) ==
    LET hits == {i \in DOMAIN content : MatchAt(content, i, unit, spaces) # None}
    IN IF hits = {} THEN None
       ELSE MatchAt(content, CHOOSE i \in hits : \A j \in hits : i <= j,
                    unit, spaces)

LowerAll(content) == [i \in DOMAIN content |-> Lower(content[i])]

\* target_word_count = 10000  # Default 10k words
DefaultTargetWordCount == 10000

\* The target_word_count detect_long_report_request computes.
extract_target_word_count(content) ==
    LET wan   == Search(content, "wan_zi", FALSE)
        qian  == Search(content, "qian_zi", FALSE)
        words == Search(LowerAll(content), "words", TRUE)
        t0 == DefaultTargetWordCount
        t1 == IF wan # None THEN Get(wan) * 10000 ELSE t0
        t2 == IF qian # None THEN Get(qian) * 1000 ELSE t1
        t3 == IF words # None THEN Get(words) ELSE t2
    IN IF has_word_count(content) THEN t3 ELSE t0

\* detect_long_report_request: the update it returns, as the pair
\* <<is_long_report, target_word_count>>; the second is None when the key
\* is not in the update.
detect_long_report_request(msgs) ==
    IF msgs = <<>> THEN <<FALSE, None>>
    ELSE LET content == msgs[Len(msgs)]
         IN <<is_long_report_keyword(content) \/ has_word_count(content),
              Some(extract_target_word_count(content))>>

\* should_generate_long_report: state.get("is_long_report", False).
should_generate_long_report(flag) ==
    IF flag # None /\ Get(flag) THEN "long_report" ELSE "standard_flow"

\* No node of the standard graph runs: its fields keep these values.
GraphIdle ==
    /\ pc = "idle"
    /\ prev_node = "START"
    /\ last_update = {}
    /\ steps = 0
    /\ search_query = <<>>
    /\ initial_search_query_count = None
    /\ rag_resources = <<>>
    /\ rag_documents = <<>>
    /\ web_research_result = <<>>
    /\ is_sufficient = "<false>"
    /\ follow_up_queries = <<>>
    /\ research_loop_count = None
    /\ max_research_loops = None
    /\ configurable = [max_research_loops |-> Some(DefaultMaxLoops),
                       number_of_initial_queries |-> NumberOfInitialQueries]
    /\ rag_config = RagConfig("", "", "", TRUE)
    /\ continuations = 0

\* The contents a message can have.
Contents == UNION { [1..n -> Units] : n \in 0..MaxContentLen }

\* The conversations the classifier is given: none, one message, or an
\* earlier long-report request followed by a short latest message.
ClassifierMessages ==
    { <<>> }
    \cup { <<c>> : c \in Contents }
    \cup { << <<"detailed report">>, c >> : c \in {d \in Contents : Len(d) <= 1} }

\* The caller's input state: is_long_report may be preset
\* (examples/long_report_example.py passes it).
ClassifierInit ==
    /\ GraphIdle
    /\ SectionIdle
    /\ messages \in ClassifierMessages
    /\ report_pc = "detect_long_report"
    /\ report_prev = "START"
    /\ is_long_report \in {None, Some(TRUE)}
    /\ target_word_count = None
    /\ report_plan = None
    /\ current_section = None
    /\ completed_sections = <<>>
    /\ sections_completed_count = None
    /\ current_section_index = None
    /\ next_section_index = None
    /\ processing_complete = FALSE
    /\ external_calls = {}
    /\ failed_calls = {}
    /\ plan_response = None
    /\ final_report = None

\* detect_long_report_request, then the router should_generate_long_report.
DetectLongReportRequest ==
    /\ report_pc = "detect_long_report"
    /\ LET update == detect_long_report_request(messages)
       IN /\ is_long_report' = Some(update[1])
          /\ target_word_count' =
               IF update[2] = None THEN target_word_count ELSE update[2]
    /\ report_pc' = should_generate_long_report(is_long_report')
    /\ report_prev' = "detect_long_report"
    /\ external_calls' = {}
    /\ failed_calls' = {}
    /\ UNCHANGED <<messages, graph_vars, section_vars,
                   report_plan, current_section,
                   completed_sections, sections_completed_count,
                   current_section_index, next_section_index,
                   processing_complete, plan_response, final_report>>

ClassifierNext == DetectLongReportRequest

ClassifierSpec == ClassifierInit /\ [][ClassifierNext]_vars

\* ------------------------------------------------- claims: the classifier
\* The latest message of the conversation.
LatestContent == messages[Len(messages)]

\* Units that are neither a long-report keyword nor part of a word-count hint.
NoSignalUnits == {"3", "0", " ", "x"}

NoSignal(content) == \A i \in DOMAIN content : content[i] \in NoSignalUnits

DigitRuns(content) ==
    { r \in (DOMAIN content) \X (DOMAIN content) :
        /\ r[1] <= r[2]
        /\ \A i \in r[1]..r[2] : IsDigit(content[i])
        /\ r[1] = 1 \/ ~IsDigit(content[r[1] - 1])
        /\ r[2] = Len(content) \/ ~IsDigit(content[r[2] + 1]) }

\* The target each word-count hint of a content asks for: N * 10000 for
\* N wan_zi, N * 1000 for N qian_zi, N for "N words" in either casing.
HintTargets(content) ==
    LET N(r) == IntOf(SubSeq(content, r[1], r[2]))
        After(r) == IF r[2] < Len(content) THEN content[r[2] + 1] ELSE ""
        AfterSpace(r) ==
            LET k == SkipSpace(content, r[2] + 1)
            IN IF k <= Len(content) THEN content[k] ELSE ""
    IN { N(r) * 10000 : r \in {q \in DigitRuns(content) : After(q) = "wan_zi"} }
       \cup { N(r) * 1000 : r \in {q \in DigitRuns(content) : After(q) = "qian_zi"} }
       \cup { N(r) : r \in {q \in DigitRuns(content) :
                               AfterSpace(q) \in {"words", "Words"}} }

\* C12: for a request classified as a long report, the target word count
\* is the one its word-count hint asks for (N * 10000, N * 1000 or N), and
\* the default 10000 when the message has no numeric hint.
C12_TargetFollowsHint ==
    (report_prev = "detect_long_report" /\ is_long_report = Some(TRUE)) =>
        IF HintTargets(LatestContent) # {}
        THEN Get(target_word_count) \in HintTargets(LatestContent)
        ELSE target_word_count = Some(DefaultTargetWordCount)

\* ----------------------------------------------------------- report planner
\* A key that is present with the value None / null (an absent key is None).
Null == <<0, 0>>
IsNull(x) == Len(x) = 2

\* state.get("target_word_count", 10000)
PlannerDefaultTarget == 10000
\* safe_target_count = target_word_count or 10000
SafeTargetCount == 10000
\* section.get("word_count_target", 1000)
DefaultSectionTarget == 1000

\* Longest section list of a generator's plan.
MaxSections == 3
\* Target word counts 0..MaxTarget are tried besides the default.
MaxTarget == 20

\* ReportSection(name, description, requires_research, word_count_target):
\* content and completed take their defaults.
ReportSection(name, description, requires_research, word_count_target) ==
    [name |-> name, description |-> description,
     requires_research |-> requires_research, content |-> "",
     word_count_target |-> word_count_target, completed |-> FALSE]

\* ReportPlan(title, abstract, sections, total_word_count_target)
ReportPlan(title, abstract, sections, total) ==
    [title |-> title, abstract |-> abstract, sections |-> sections,
     total_word_count_target |-> total]

\* One element of the "sections" value of a generator's plan: a JSON object
\* with some of the four keys, or a value that is not an object.
SectionEntry(kind, name, description, requires_research, word_count_target) ==
    [kind |-> kind, name |-> name, description |-> description,
     requires_research |-> requires_research,
     word_count_target |-> word_count_target]

SectionEntries ==
    { SectionEntry("dict", Some("A"), Some("about A"), Some(TRUE), Some(1500)),
      SectionEntry("dict", Some("B"), Some("about B"), Some(FALSE), None),
      SectionEntry("dict", Some("A"), Some("more A"), None, Some(0)),
      SectionEntry("dict", None, Some("unnamed"), Some(TRUE), Some(1500)),
      SectionEntry("dict", Some("B"), Some("about B"), Some(TRUE), Null),
      SectionEntry("other", None, None, None, None) }

SectionEntryLists == UNION { [1..n -> SectionEntries] : n \in 0..MaxSections }

\* The generator's answer to the planning prompt, by what json.loads makes
\* of it: text that is not JSON, a JSON value that is not an object, or an
\* object with some of the keys title, abstract, total_word_count_target
\* and sections.  sections_kind tells whether the sections key is absent,
\* a list (of the entries in sections) or another value.
PlanResp(kind, title, abstract, total, sections_kind, sections) ==
    [kind |-> kind, title |-> title, abstract |-> abstract,
     total_word_count_target |-> total, sections_kind |-> sections_kind,
     sections |-> sections]

PlanResponses ==
    { PlanResp("text", None, None, None, "absent", <<>>),
      PlanResp("json_other", None, None, None, "absent", <<>>),
      PlanResp("json_dict", Some("T"), Some("abs"), Some(12000), "absent", <<>>),
      PlanResp("json_dict", Some("T"), Some("abs"), None, "other", <<>>) }
    \cup { PlanResp("json_dict", None, Some("abs"), Some(12000), "list", l) :
             l \in SectionEntryLists }
    \cup { PlanResp("json_dict", Some("T"), Some("abs"), Some(12000), "list", l) :
             l \in SectionEntryLists }
    \cup { PlanResp("json_dict", Some("T"), Some("abs"), None, "list", l) :
             l \in SectionEntryLists }

\* ReportSection(...) for one entry succeeds: the entry is an object with
\* name and description, and its word_count_target, if any, is an int.
EntryBuilds(e) ==
    /\ e.kind = "dict"
    /\ e.name # None
    /\ e.description # None
    /\ ~IsNull(e.word_count_target)

\* word_count_target=1000 for every section, whatever the entry says.
SectionOf_default_target(e) ==
    ReportSection(Get(e.name), Get(e.description),
                  IF e.requires_research = None THEN TRUE
                  ELSE Get(e.requires_research),
                  DefaultSectionTarget)

\* The ReportSection built from an entry.
SectionOf(e) ==
    ReportSection(Get(e.name), Get(e.description),
                  IF e.requires_research = None THEN TRUE
                  ELSE Get(e.requires_research),
                  IF e.word_count_target = None THEN DefaultSectionTarget
                  ELSE Get(e.word_count_target))

\* The try block of the planners: the plan it builds, or None when
\* json.loads, a key lookup or a model validation raises.
ParsePlan(resp, target) ==
    IF resp.kind # "json_dict" THEN None
    ELSE IF resp.sections_kind # "list" THEN None
    ELSE LET entries == resp.sections
             total == IF resp.total_word_count_target = None THEN target
                      ELSE resp.total_word_count_target
         IN IF \E i \in DOMAIN entries : ~EntryBuilds(entries[i]) THEN None
            ELSE IF resp.title = None \/ resp.abstract = None THEN None
            ELSE IF IsNull(total) THEN None
            ELSE Some(ReportPlan(Get(resp.title), Get(resp.abstract),
                                 [i \in DOMAIN entries |-> SectionOf(entries[i])],
                                 Get(total)))

\* enhanced_generate_report_plan: the sections of the except branch.
enhanced_fallback_sections(safe) ==
    << ReportSection("introduction", "background and goals", TRUE, safe \div 5),
       ReportSection("literature review", "related research", TRUE,
                     (safe * 3) \div 10),
       ReportSection("core analysis", "main analysis", TRUE,
                     (safe * 35) \div 100),
       ReportSection("summary", "key points and conclusions", FALSE,
                     (safe * 15) \div 100) >>

\* generate_report_plan (long_report_nodes.py): the sections of the except
\* branch.
legacy_fallback_sections(target) ==
    << ReportSection("introduction", "background and goals", TRUE, target \div 6),
       ReportSection("literature review", "related research", TRUE,
                     target \div 4),
       ReportSection("core analysis", "main analysis", TRUE, target \div 3),
       ReportSection("conclusion", "summary and advice", FALSE, target \div 6) >>

\* state.get("target_word_count", 10000)
PlannerTarget(state_target) ==
    IF state_target = None THEN Some(PlannerDefaultTarget) ELSE state_target

\* target_word_count or 10000
SafeTarget(target) ==
    IF IsNull(target) \/ Get(target) = 0 THEN SafeTargetCount ELSE Get(target)

\* enhanced_generate_report_plan: the report_plan of the update it returns.
enhanced_generate_report_plan(resp, state_target) ==
    LET target == PlannerTarget(state_target)
        parsed == ParsePlan(resp, target)
    IN IF parsed # None THEN Get(parsed)
       ELSE ReportPlan("topic report", "fallback abstract",
                       enhanced_fallback_sections(SafeTarget(target)),
                       SafeTarget(target))

\* generate_report_plan: the report_plan of the update it returns (the
\* except branch raises TypeError when the target is None).
generate_report_plan(resp, state_target) ==
    LET target == PlannerTarget(state_target)
        parsed == ParsePlan(resp, target)
    IN IF parsed # None THEN Get(parsed)
       ELSE ReportPlan("topic report", "fallback abstract",
                       legacy_fallback_sections(Get(target)), Get(target))

\* The target_word_count the planner finds in the state: the key absent
\* (the planner called on its own) or the count the classifier extracted,
\* its default among them.
TargetCounts ==
    {None} \cup {Some(n) : n \in 0..MaxTarget}
    \cup {Some(DefaultTargetWordCount)}

\* The state the planner is given: a request classified as a long report.
PlannerInit ==
    /\ GraphIdle
    /\ SectionIdle
    /\ messages = << <<"detailed report">> >>
    /\ report_pc \in {"enhanced_generate_report_plan", "generate_report_plan"}
    /\ report_prev = "detect_long_report"
    /\ is_long_report = Some(TRUE)
    /\ target_word_count \in TargetCounts
    /\ report_plan = None
    /\ current_section = None
    /\ completed_sections = <<>>
    /\ sections_completed_count = None
    /\ current_section_index = None
    /\ next_section_index = None
    /\ processing_complete = FALSE
    /\ external_calls = {}
    /\ failed_calls = {}
    /\ plan_response = None
    /\ final_report = None

\* enhanced_generate_report_plan: both return statements set the same keys.
EnhancedGenerateReportPlan ==
    /\ report_pc = "enhanced_generate_report_plan"
    /\ \E resp \in PlanResponses :
         /\ plan_response' = Some(resp)
         /\ report_plan' =
              Some(enhanced_generate_report_plan(resp, target_word_count))
    /\ current_section_index' = Some(0)
    /\ completed_sections' = <<>>
    /\ sections_completed_count' = Some(0)
    /\ next_section_index' = None
    /\ report_pc' = "process_section"
    /\ report_prev' = "enhanced_generate_report_plan"
    /\ external_calls' = {"generator"}
    /\ failed_calls' = {}
    /\ UNCHANGED <<messages, graph_vars, section_vars,
                   is_long_report, target_word_count,
                   current_section, processing_complete, final_report>>

\* generate_report_plan (long_report_nodes.py): the update is report_plan.
GenerateReportPlan ==
    /\ report_pc = "generate_report_plan"
    /\ \E resp \in PlanResponses :
         /\ ParsePlan(resp, PlannerTarget(target_word_count)) # None
            \/ ~IsNull(PlannerTarget(target_word_count))
         /\ plan_response' = Some(resp)
         /\ report_plan' = Some(generate_report_plan(resp, target_word_count))
    /\ report_pc' = "get_next_section"
    /\ report_prev' = "generate_report_plan"
    /\ external_calls' = {"generator"}
    /\ failed_calls' = {}
    /\ UNCHANGED <<messages, graph_vars, section_vars,
                   is_long_report, target_word_count,
                   current_section, completed_sections,
                   sections_completed_count, current_section_index,
                   next_section_index, processing_complete, final_report>>

\* A planner raises: llm.invoke and LLMFactory.create_llm are outside the
\* try block.
PlannerRaises ==
    /\ report_pc \in {"enhanced_generate_report_plan", "generate_report_plan"}
    /\ report_pc' = "aborted"
    /\ report_prev' = report_pc
    /\ external_calls' = {"generator"}
    /\ failed_calls' = {"generator"}
    /\ UNCHANGED <<messages, graph_vars, section_vars,
                   is_long_report, target_word_count,
                   report_plan, current_section, completed_sections,
                   sections_completed_count, current_section_index,
                   next_section_index, processing_complete, plan_response,
                   final_report>>

PlannerNext ==
    \/ EnhancedGenerateReportPlan
    \/ GenerateReportPlan
    \/ PlannerRaises

PlannerSpec == PlannerInit /\ [][PlannerNext]_vars

\* --------------------------------------------------- claims: the planner
\* A planner has returned its update.
Planned ==
    /\ report_prev \in {"enhanced_generate_report_plan", "generate_report_plan"}
    /\ report_pc # "aborted"

\* The plan in the state.
Plan == Get(report_plan)

RECURSIVE SumTargets(_)
SumTargets(sections) ==
    IF sections = <<>> THEN 0
    ELSE Head(sections).word_count_target + SumTargets(Tail(sections))

\* The reply is a structured plan: a JSON object with title, abstract and a
\* list of sections, each an object with name, description and, if it has
\* a word_count_target, an integer one.
IsStructuredPlan(resp) ==
    /\ resp.kind = "json_dict"
    /\ resp.title # None
    /\ resp.abstract # None
    /\ resp.sections_kind = "list"
    /\ \A i \in DOMAIN resp.sections :
         LET e == resp.sections[i]
         IN e.kind = "dict" /\ e.name # None /\ e.description # None
            /\ Len(e.word_count_target) <= 1

\* The names of the canned sections.
CannedNames ==
    { <<"introduction", "literature review", "core analysis", "summary">>,
      <<"introduction", "literature review", "core analysis", "conclusion">> }

SectionNames(sections) == [i \in DOMAIN sections |-> sections[i].name]

\* C13: on the fallback path the word-count targets of the canned sections
\* sum exactly to the requested target word count, for every positive
\* target.
C13_FallbackTargetsSumToTarget ==
    (/\ Planned
     /\ ~IsStructuredPlan(Get(plan_response))
     /\ target_word_count # None
     /\ Get(target_word_count) > 0)
    => SumTargets(Plan.sections) = Get(target_word_count)

\* C14: the planner returns the canned plan exactly when the reply is not
\* a structured plan; for a structured plan the sections are those of the
\* reply, in its order, with its word-count targets taken as given.
C14_FallbackIffParseFails ==
    Planned =>
        LET resp == Get(plan_response)
        IN IF IsStructuredPlan(resp)
           THEN /\ Len(Plan.sections) = Len(resp.sections)
                /\ \A i \in DOMAIN resp.sections :
                     /\ Plan.sections[i].name = Get(resp.sections[i].name)
                     /\ resp.sections[i].word_count_target # None =>
                          Plan.sections[i].word_count_target =
                              Get(resp.sections[i].word_count_target)
                /\ Plan.title = "T"
           ELSE /\ SectionNames(Plan.sections) \in CannedNames
                /\ Plan.title = "topic report"

\* A structured reply of two sections named B then A, the second with
\* target 1500, became the plan.
C14_Witness ==
    /\ Planned
    /\ IsStructuredPlan(Get(plan_response))
    /\ SectionNames(Plan.sections) = <<"B", "A">>
    /\ Plan.sections[1].word_count_target = DefaultSectionTarget
    /\ Plan.sections[2].word_count_target = 1500

\* C15: every plan a planner returns has at least one section and every
\* section's word_count_target is positive.
C15_PlanNonEmptyPositiveTargets ==
    Planned =>
        /\ Len(Plan.sections) >= 1
        /\ \A i \in DOMAIN Plan.sections :
             Plan.sections[i].word_count_target > 0

\* ------------------------------------------------- section search queries
\* A search query: its words, whether it has upper-case letters and
\* whether it has whitespace around it.
Query(words, cased, padded) ==
    [words |-> words, cased |-> cased, padded |-> padded]

\* query.lower().strip()
query_key(query) == [query EXCEPT !.cased = FALSE, !.padded = FALSE]

\* fallback_query.lower()
query_lower(query) == [query EXCEPT !.cased = FALSE]

\* line.strip()
query_strip(query) == [query EXCEPT !.padded = FALSE]

\* len(query_lower) > 5
query_long_enough(query) == query.words # <<"ai">>

\* The queries a generator's reply can hold: a query, the same query with
\* other case and padding, another query, and one of two letters.
GeneratedQueries ==
    { Query(<<"alpha research">>, FALSE, FALSE),
      Query(<<"alpha research">>, TRUE, TRUE),
      Query(<<"beta research">>, FALSE, FALSE),
      Query(<<"gamma research">>, TRUE, FALSE),
      Query(<<"ai">>, FALSE, FALSE) }

\* A reply holds at most MaxReplyQueries queries.
MaxReplyQueries == 3

QueryLists == UNION { [1..n -> GeneratedQueries] : n \in 0..MaxReplyQueries }

\* The generator's answer to the query prompt of generate_section_queries:
\* text that json.loads rejects, or an object with a "queries" list.
QueryReplies ==
    { [kind |-> "text", queries |-> <<>>] }
    \cup { [kind |-> "json", queries |-> l] : l \in QueryLists }

\* unique_queries: the first query of every normalized form that is longer
\* than 5 characters.
RECURSIVE unique_queries(_, _)
unique_queries(queries, seen_queries) ==
    IF queries = <<>> THEN <<>>
    ELSE LET query == Head(queries)
             query_lower_key == query_key(query)
         IN IF query_lower_key \notin seen_queries /\ query_long_enough(query)
            THEN <<query>> \o unique_queries(Tail(queries),
                                  seen_queries \cup {query_lower_key})
            ELSE unique_queries(Tail(queries), seen_queries)

\* unique_queries[:2]
SectionQueryLimit == 2

\* final_queries: the unique queries that were not executed before.
RECURSIVE final_queries(_, _)
final_queries(queries, executed) ==
    IF queries = <<>> THEN <<>>
    ELSE IF query_key(Head(queries)) \notin executed
         THEN <<Head(queries)>>
              \o final_queries(Tail(queries),
                               executed \cup {query_key(Head(queries))})
         ELSE final_queries(Tail(queries), executed)

QueryKeys(queries) == { query_key(queries[i]) : i \in DOMAIN queries }

\* fallback_query = f"{current_section.name}<related research material>"
name_fallback_query(section) ==
    Query(<<section.name, "related research material">>, TRUE, FALSE)

\* fallback_queries = [f"{current_section.name} {current_section.description}"]
description_fallback_query(section) ==
    Query(<<section.name, section.description>>, TRUE, FALSE)

\* generate_section_queries: the search_query of its update and the
\* executed_queries the state holds afterwards.  researched: the section
\* exists and requires research (otherwise the update is search_query []
\* alone).
generate_section_queries(section, reply, executed) ==
    IF section = None \/ ~Get(section).requires_research
    THEN [researched |-> FALSE, search_query |-> <<>>,
          executed_queries |-> executed]
    ELSE IF reply.kind # "json"
    THEN [researched |-> TRUE,
          search_query |-> <<description_fallback_query(Get(section))>>,
          executed_queries |-> executed]
    ELSE LET unique == Take(unique_queries(reply.queries, {}),
                            SectionQueryLimit)
             final == final_queries(unique, executed)
             executed_after == executed \cup QueryKeys(final)
             fallback == name_fallback_query(Get(section))
         IN IF final # <<>>
            THEN [researched |-> TRUE, search_query |-> final,
                  executed_queries |-> executed_after]
            ELSE IF query_lower(fallback) \notin executed_after
            THEN [researched |-> TRUE, search_query |-> <<fallback>>,
                  executed_queries |->
                    executed_after \cup {query_lower(fallback)}]
            ELSE [researched |-> TRUE, search_query |-> <<>>,
                  executed_queries |-> executed_after]

\* The lines of the generator's answer to the query prompt of
\* generate_section_research_queries (blank lines left out).
SectionQueryLines ==
    { <<>>,
      <<Query(<<"alpha research">>, FALSE, FALSE)>>,
      <<Query(<<"alpha research">>, FALSE, FALSE),
        Query(<<"beta research">>, FALSE, FALSE)>>,
      <<Query(<<"alpha research">>, FALSE, FALSE),
        Query(<<"alpha research">>, TRUE, TRUE)>> }

\* queries[:5]
ResearchQueryLimit == 5

\* generate_section_research_queries: the generator's lines, stripped, or
\* one query of the section's name and description if there is no line.
generate_section_research_queries(section, lines) ==
    LET queries == [i \in DOMAIN lines |-> query_strip(lines[i])]
    IN IF queries = <<>> THEN <<description_fallback_query(section)>>
       ELSE Take(queries, ResearchQueryLimit)

\* -------------------------------------------------------- section processor
\* What the generator returns as the content of a section.
SectionContents == {"generated text", "other generated text", ""}

\* process_next_section: next_section_index if it is not None, else
\* state.get("current_section_index", 0).
section_index_to_process(next, current) ==
    IF next # None THEN Get(next)
    ELSE IF current = None THEN 0 ELSE Get(current)

\* not report_plan or section_index_to_process >= len(report_plan.sections)
no_more_sections(plan, index) ==
    plan = None \/ index >= Len(Get(plan).sections)

\* process_next_section past the end of the plan, returning without
\* the signal.
no_more_sections_unsignalled == FALSE

\* process_next_section past the end of the plan:
\* return {"processing_complete": True}
no_more_sections_signal == TRUE

\* has_more_sections_to_process looking at current_section_index alone.
section_index_to_check_current(next, current) ==
    IF current = None THEN 0 ELSE Get(current)

\* has_more_sections_to_process: next_section_index if it is not None,
\* else state.get("current_section_index", 0).
section_index_to_check(next, current) ==
    IF next # None THEN Get(next)
    ELSE IF current = None THEN 0 ELSE Get(current)

\* has_more_sections_to_process
has_more_sections_to_process(complete, plan, next, current) ==
    IF complete THEN "compile_report"
    ELSE IF no_more_sections(plan, section_index_to_check(next, current))
         THEN "compile_report"
         ELSE "process_section"

\* current_section.content = content, without completed = True.
complete_section_unflagged(section, content) ==
    [section EXCEPT !.content = content]

\* The section renamed after the text the generator returned.
complete_section_retitled(section, content) ==
    [section EXCEPT !.name = content, !.content = content,
                    !.completed = TRUE]

\* current_section.content = content; current_section.completed = True
complete_section(section, content) ==
    [section EXCEPT !.content = content, !.completed = TRUE]

\* "current_section_index": the index of the section to process next.
completed_index_as_next(index) == index + 1

\* "current_section_index": section_index_to_process, the section just
\* completed.
completed_index(index) == index

\* sections_completed_count counted before the section was appended.
sections_completed_before(before, after) == Len(before)

\* sections_completed_count = len(completed_sections), after the append.
sections_completed(before, after) == Len(after)

\* result_update of process_next_section without completed_sections: the
\* cursors, the count and what is shown of the section just completed.
result_update(plan, index, before, after) ==
    [current_section_index |-> completed_index(index),
     next_section_index |-> index + 1,
     sections_completed_count |-> sections_completed(before, after),
     section_name |-> plan.sections[index + 1].name,
     section_description |-> plan.sections[index + 1].description,
     total_sections |-> Len(plan.sections)]

\* A process_section event that announces the section to process next.
process_section_event_next(plan, index, before, after) ==
    [current_section_index |-> index + 1,
     total_sections |-> Len(plan.sections),
     sections_completed_count |-> Len(after),
     section_name |-> plan.sections[index + 1].name,
     section_description |-> plan.sections[index + 1].description]

\* The "process_section" entry process_next_section returns beside its
\* update: the event the frontend listens for.
process_section_event(plan, index, before, after) ==
    [current_section_index |-> index,
     total_sections |-> Len(plan.sections),
     sections_completed_count |-> sections_completed(before, after),
     section_name |-> plan.sections[index + 1].name,
     section_description |-> plan.sections[index + 1].description]

\* The external calls process_next_section makes for a section: the
\* generator for its content and, for a section that requires research,
\* the generator for its queries and the web search for each query.
section_calls(section) ==
    IF section.requires_research THEN {"generator", "retrieval"}
    ELSE {"generator"}

\* The failures process_next_section survives: perform_section_research
\* catches what rag_retrieve and web_search_tool.search raise and goes on
\* with the results it has.
caught_failures(section) ==
    IF section.requires_research THEN {{}, {"retrieval"}} ELSE {{}}

\* sections_to_check = report_plan.sections[:5]
SectionsChecked == 5

CompletedNames(completed) == { completed[i].name : i \in DOMAIN completed }

\* get_next_section: the current_section of the update it returns.
get_next_section(plan, completed) ==
    IF plan = None THEN None
    ELSE LET checked == Take(Get(plan).sections, SectionsChecked)
             open == { i \in DOMAIN checked :
                         /\ checked[i].requires_research
                         /\ checked[i].name \notin CompletedNames(completed) }
         IN IF open = {} THEN None
            ELSE Some(checked[CHOOSE i \in open : \A j \in open : i <= j])

\* has_more_sections (the key section_processing_count is not a field of
\* OverallState, so the circuit breaker reads its default 0).
has_more_sections(plan, completed) ==
    IF get_next_section(plan, completed) # None THEN "process_section"
    ELSE "finalize_long_report"

\* write_section_content: ReportSection(name=..., content=content,
\* completed=True), a new object with the other fields at their defaults.
written_section(section, content) ==
    [ReportSection(section.name, section.description,
                   section.requires_research, section.word_count_target)
     EXCEPT !.content = content, !.completed = TRUE]

\* write_section_content's except branch: the placeholder content.
GenerationFailed == "[content generation failed]"

\* write_section_content's content: the generator's, or the placeholder.
WrittenContents == SectionContents \cup {GenerationFailed}

\* One part of a compiled report: the title, the abstract, a line of the
\* table of contents, a section block ("## i. name" followed by its
\* content), a block of generated content without a heading of its own, a
\* block for a section without content, or the failure message.
ReportPart(kind, name, text) == [kind |-> kind, name |-> name, text |-> text]

\* for section in completed_sections: if section.content: append it.
RECURSIVE NonEmptyContents(_)
NonEmptyContents(completed) ==
    IF completed = <<>> THEN <<>>
    ELSE IF Head(completed).content # ""
         THEN <<ReportPart("content", "", Head(completed).content)>>
              \o NonEmptyContents(Tail(completed))
         ELSE NonEmptyContents(Tail(completed))

\* compile_enhanced_final_report: the parts joined into final_report; None
\* when there is no plan (the update then has no final_report).
compile_enhanced_final_report(plan, completed) ==
    IF plan = None THEN None
    ELSE Some(<<ReportPart("title", "", Get(plan).title),
                ReportPart("abstract", "", Get(plan).abstract)>>
              \o NonEmptyContents(completed))

\* section_content_map = {section.name: section.content for ...}: the last
\* completed section of a name wins; section_content_map.get(name,
\* "[<name> section content missing]") for a name that is not in it.
ContentByName(completed, name) ==
    LET hits == { i \in DOMAIN completed : completed[i].name = name }
    IN IF hits = {} THEN ReportPart("missing_section", name, "")
       ELSE ReportPart("section", name,
              completed[CHOOSE i \in hits : \A j \in hits : i >= j].content)

\* compile_final_long_report: the parts joined into final_report (title,
\* abstract, the table of contents, one block per plan section), or the
\* failure message.
compile_final_long_report(plan, completed) ==
    IF plan = None \/ completed = <<>>
    THEN <<ReportPart("failure", "", "report generation failed")>>
    ELSE <<ReportPart("title", "", Get(plan).title),
           ReportPart("abstract", "", Get(plan).abstract)>>
         \o [i \in DOMAIN Get(plan).sections |->
               ReportPart("contents_line", Get(plan).sections[i].name, "")]
         \o [i \in DOMAIN Get(plan).sections |->
               ContentByName(completed, Get(plan).sections[i].name)]

\* The plans the planners return for the classifier's default target.
EnhancedPlans ==
    { enhanced_generate_report_plan(r, Some(DefaultTargetWordCount)) :
        r \in PlanResponses }

LegacyPlans ==
    { generate_report_plan(r, Some(DefaultTargetWordCount)) :
        r \in PlanResponses }

\* The state a planner leaves: enhanced_generate_report_plan resets the
\* cursors, the completed list and its count; generate_report_plan sets
\* report_plan only (the caller's input has completed_sections = []).
ReportInit ==
    /\ GraphIdle
    /\ SectionIdle
    /\ messages = << <<"detailed report">> >>
    /\ is_long_report = Some(TRUE)
    /\ target_word_count = Some(DefaultTargetWordCount)
    /\ plan_response = None
    /\ final_report = None
    /\ current_section = None
    /\ completed_sections = <<>>
    /\ processing_complete = FALSE
    /\ external_calls = {"generator"}
    /\ failed_calls = {}
    /\ \/ /\ report_prev = "enhanced_generate_report_plan"
          /\ report_pc = "process_section"
          /\ report_plan \in { Some(plan) : plan \in EnhancedPlans }
          /\ current_section_index = Some(0)
          /\ sections_completed_count = Some(0)
          /\ next_section_index = None
       \/ /\ report_prev = "generate_report_plan"
          /\ report_pc = "get_next_section"
          /\ report_plan \in { Some(plan) : plan \in LegacyPlans }
          /\ current_section_index = None
          /\ sections_completed_count = None
          /\ next_section_index = None

\* process_next_section, then the router has_more_sections_to_process.
ProcessNextSection ==
    /\ report_pc = "process_section"
    /\ LET index == section_index_to_process(next_section_index,
                                             current_section_index)
       IN IF no_more_sections(report_plan, index)
          THEN /\ processing_complete' = no_more_sections_signal
               /\ external_calls' = {}
               /\ failed_calls' = {}
               /\ retrieval_queries' = <<>>
               /\ UNCHANGED <<report_plan, completed_sections,
                              sections_completed_count,
                              current_section_index, next_section_index,
                              issued_queries>>
          ELSE \E content \in SectionContents, lines \in SectionQueryLines :
                 LET section == Get(report_plan).sections[index + 1]
                     done == complete_section(section, content)
                 IN /\ retrieval_queries' =
                         IF section.requires_research
                         THEN generate_section_research_queries(section,
                                                                lines)
                         ELSE <<>>
                    /\ issued_queries' =
                         issued_queries \cup QueryKeys(retrieval_queries')
                    /\ report_plan' =
                         Some([Get(report_plan)
                               EXCEPT !.sections[index + 1] = done])
                    /\ completed_sections' = Append(completed_sections, done)
                    /\ LET returned ==
                             result_update(Get(report_plan), index,
                                           completed_sections,
                                           completed_sections')
                       IN /\ sections_completed_count' =
                               Some(returned.sections_completed_count)
                          /\ current_section_index' =
                               Some(returned.current_section_index)
                          /\ next_section_index' =
                               Some(returned.next_section_index)
                    /\ external_calls' = section_calls(section)
                    /\ failed_calls' \in caught_failures(section)
                    /\ UNCHANGED processing_complete
    /\ report_pc' = has_more_sections_to_process(processing_complete',
                        report_plan', next_section_index',
                        current_section_index')
    /\ report_prev' = "process_section"
    /\ UNCHANGED <<reports,
                   messages, graph_vars, is_long_report, target_word_count,
                   current_section, plan_response, final_report,
                   executed_queries, section_is_sufficient,
                   section_follow_up_queries, section_research_count,
                   max_section_research_loops, extra_research>>

\* process_next_section raises: its generator calls are in no try block.
ProcessRaises ==
    /\ report_pc = "process_section"
    /\ ~no_more_sections(report_plan,
                         section_index_to_process(next_section_index,
                                                  current_section_index))
    /\ report_pc' = "aborted"
    /\ report_prev' = "process_section"
    /\ external_calls' = {"generator"}
    /\ failed_calls' = {"generator"}
    /\ UNCHANGED <<messages, graph_vars, section_vars,
                   is_long_report, target_word_count,
                   report_plan, current_section, completed_sections,
                   sections_completed_count, current_section_index,
                   next_section_index, processing_complete, plan_response,
                   final_report>>

\* AIMessage(content=...) of compile_enhanced_final_report without a plan.
NoReportPlan == <<ReportPart("failure", "", "no report plan")>>

\* compile_enhanced_final_report, then END.
CompileEnhancedFinalReport ==
    /\ report_pc = "compile_report"
    /\ LET report == compile_enhanced_final_report(report_plan,
                                                   completed_sections)
       IN /\ final_report' = report
          /\ messages' = Append(messages,
                                IF report = None THEN NoReportPlan
                                ELSE Get(report))
    /\ processing_complete' = TRUE
    /\ report_pc' = "END"
    /\ report_prev' = "compile_report"
    /\ external_calls' = {}
    /\ failed_calls' = {}
    /\ UNCHANGED <<graph_vars, section_vars,
                   is_long_report, target_word_count, report_plan,
                   current_section, completed_sections,
                   sections_completed_count, current_section_index,
                   next_section_index, plan_response>>

\* get_next_section (long_report_nodes.py), then the router
\* has_more_sections; its "process_section" branch ends in
\* write_section_content.
GetNextSection ==
    /\ report_pc = "get_next_section"
    /\ current_section' = get_next_section(report_plan, completed_sections)
    /\ report_pc' =
         IF has_more_sections(report_plan, completed_sections) = "process_section"
         THEN "write_section_content"
         ELSE "finalize_long_report"
    /\ report_prev' = "get_next_section"
    /\ external_calls' = {}
    /\ failed_calls' = {}
    /\ UNCHANGED <<messages, graph_vars, section_vars,
                   is_long_report, target_word_count,
                   report_plan, completed_sections, sections_completed_count,
                   current_section_index, next_section_index,
                   processing_complete, plan_response, final_report>>

\* write_section_content with its update applied: completed_sections has
\* no reducer in OverallState, so the returned list replaces the old one.
WriteSectionContent ==
    /\ report_pc = "write_section_content"
    /\ IF current_section = None
          \/ Get(current_section).name \in CompletedNames(completed_sections)
       THEN /\ completed_sections' = <<>>
            /\ external_calls' = {}
            /\ failed_calls' = {}
            /\ UNCHANGED section_follow_up_queries
       ELSE \E content \in WrittenContents :
              /\ completed_sections' =
                   <<written_section(Get(current_section), content)>>
              /\ external_calls' = {"generator"}
              /\ failed_calls' = IF content = GenerationFailed
                                 THEN {"generator"} ELSE {}
              /\ section_follow_up_queries' = <<>>
    /\ current_section' = None
    /\ section_research_count' = 0
    /\ section_is_sufficient' = FALSE
    /\ report_pc' = "get_next_section"
    /\ report_prev' = "write_section_content"
    /\ UNCHANGED <<reports,
                   messages, graph_vars, is_long_report, target_word_count,
                   report_plan, sections_completed_count,
                   current_section_index, next_section_index,
                   processing_complete, plan_response, final_report,
                   executed_queries, max_section_research_loops,
                   retrieval_queries, issued_queries, extra_research>>

\* write_section_content raises: LLMFactory.create_llm is outside its try
\* block.
WriteRaises ==
    /\ report_pc = "write_section_content"
    /\ current_section # None
    /\ Get(current_section).name \notin CompletedNames(completed_sections)
    /\ report_pc' = "aborted"
    /\ report_prev' = "write_section_content"
    /\ external_calls' = {}
    /\ failed_calls' = {"create_llm"}
    /\ UNCHANGED <<messages, graph_vars, section_vars,
                   is_long_report, target_word_count,
                   report_plan, current_section, completed_sections,
                   sections_completed_count, current_section_index,
                   next_section_index, processing_complete, plan_response,
                   final_report>>

\* compile_final_long_report, then END.
CompileFinalLongReport ==
    /\ report_pc = "finalize_long_report"
    /\ final_report' =
         Some(compile_final_long_report(report_plan, completed_sections))
    /\ report_pc' = "END"
    /\ report_prev' = "finalize_long_report"
    /\ external_calls' = {}
    /\ failed_calls' = {}
    /\ UNCHANGED <<messages, graph_vars, section_vars,
                   is_long_report, target_word_count,
                   report_plan, current_section, completed_sections,
                   sections_completed_count, current_section_index,
                   next_section_index, processing_complete, plan_response>>

ReportNext ==
    \/ ProcessNextSection
    \/ ProcessRaises
    \/ CompileEnhancedFinalReport
    \/ GetNextSection
    \/ WriteSectionContent
    \/ WriteRaises
    \/ CompileFinalLongReport

ReportSpec == ReportInit /\ [][ReportNext]_vars

\* The graph runs a node whenever one is due.
ReportFairSpec == ReportSpec /\ WF_vars(ReportNext)

\* ------------------------------------------------------------ the compiler
\* The orders in which some of the sections at the positions in S can have
\* been completed: the sequences over S without a repetition.
ProcessingOrders(S) ==
    UNION { { order \in [1..n -> S] :
                \A i, j \in 1..n : i # j => order[i] # order[j] } :
            n \in 0..Cardinality(S) }

\* completed_sections after the sections of the plan at the positions in
\* order were completed, in that order, with the given contents.
CompletedOf(plan, order, contents) ==
    [k \in DOMAIN order |->
       complete_section(plan.sections[order[k]], contents[k])]

\* The compilers' inputs for one plan: the plan (None: no plan) and a
\* completed list.  withMarks: the plan's own sections carry the content
\* and the flag (process_next_section completes them in place), or they
\* are as planned (write_section_content builds new objects).
CompilerInputs(plan, contentSet, withMarks) ==
    UNION { { LET completed == CompletedOf(plan, order, contents)
                  marked == [i \in DOMAIN plan.sections |->
                               IF \E k \in DOMAIN order : order[k] = i
                               THEN completed[CHOOSE k \in DOMAIN order :
                                                order[k] = i]
                               ELSE plan.sections[i]]
              IN <<Some(IF withMarks THEN [plan EXCEPT !.sections = marked]
                        ELSE plan),
                   completed>> :
              contents \in [DOMAIN order -> contentSet] } :
            order \in ProcessingOrders(DOMAIN plan.sections) }
    \cup { <<None, <<>> >> }

\* The state in which a compiler is called: a plan or none, and some of
\* its sections completed in some order.
CompilerInit ==
    /\ GraphIdle
    /\ SectionIdle
    /\ messages = << <<"detailed report">> >>
    /\ is_long_report = Some(TRUE)
    /\ target_word_count = Some(DefaultTargetWordCount)
    /\ plan_response = None
    /\ final_report = None
    /\ current_section = None
    /\ current_section_index = None
    /\ next_section_index = None
    /\ external_calls = {}
    /\ failed_calls = {}
    /\ \/ /\ report_pc = "compile_report"
          /\ report_prev = "process_section"
          /\ processing_complete = TRUE
          /\ \E plan \in EnhancedPlans :
               \E input \in CompilerInputs(plan, SectionContents, TRUE) :
                 /\ report_plan = input[1]
                 /\ completed_sections = input[2]
          /\ sections_completed_count = Some(Len(completed_sections))
       \/ /\ report_pc = "finalize_long_report"
          /\ report_prev = "get_next_section"
          /\ processing_complete = FALSE
          /\ \E plan \in LegacyPlans :
               \E input \in CompilerInputs(plan, WrittenContents, FALSE) :
                 /\ report_plan = input[1]
                 /\ completed_sections = input[2]
          \* write_section_content skips a name that is already completed
          /\ \A i, j \in DOMAIN completed_sections :
               i # j => completed_sections[i].name # completed_sections[j].name
          /\ sections_completed_count = None

CompilerNext ==
    \/ CompileEnhancedFinalReport
    \/ CompileFinalLongReport

CompilerSpec == CompilerInit /\ [][CompilerNext]_vars

\* ------------------------------------------- the research of one section
\* section_reflection: the update it returns, whatever the research found.
section_reflection(section) ==
    [section_is_sufficient |-> TRUE, section_follow_up_queries |-> <<>>]

\* evaluate_section_research without its ceilings of one iteration:
\* should_terminate = sufficient or no follow-up queries or
\* section_research_count >= (max_section_research_loops or 1).
evaluate_section_research_uncapped(section, sufficient, follow_ups, count, max_loops_state) ==
    IF section = None THEN "write_section_content"
    ELSE LET loop_ceiling == IF max_loops_state = None
                             \/ Get(max_loops_state) = 0
                          THEN 1 ELSE Get(max_loops_state)
         IN IF sufficient \/ follow_ups = <<>> \/ count >= loop_ceiling
            THEN "write_section_content"
            ELSE "continue_section_research"

\* evaluate_section_research: max_loops = min(max_section_research_loops or
\* 1, 1); should_terminate = sufficient or no follow-up queries or
\* section_research_count >= max_loops or section_research_count >= 1.
evaluate_section_research(section, sufficient, follow_ups, count, max_loops_state) ==
    IF section = None THEN "write_section_content"
    ELSE LET given == IF max_loops_state = None \/ Get(max_loops_state) = 0
                      THEN 1 ELSE Get(max_loops_state)
             loop_ceiling == IF given < 1 THEN given ELSE 1
         IN IF \/ sufficient
               \/ follow_ups = <<>>
               \/ count >= loop_ceiling
               \/ count >= 1
            THEN "write_section_content"
            ELSE "continue_section_research"

\* continue_section_research: section_research_count + 10
ForcedCountStep == 10

\* continue_section_research: section_research_count >= 2
HardSectionLimit == 2

\* continue_section_research: state.get("max_section_research_loops", 2) or 2
DefaultSectionLoops == 2

\* continue_section_research: the update it returns (search_query None:
\* the key is not in the update).
continue_section_research(section, follow_ups, count, max_loops_state) ==
    IF follow_ups = <<>> \/ section = None
    THEN [search_query |-> None, section_is_sufficient |-> Some(TRUE),
          section_follow_up_queries |-> <<>>,
          section_research_count |-> count + ForcedCountStep]
    ELSE LET next_count == count + 1
             loop_ceiling == IF max_loops_state = None
                             \/ Get(max_loops_state) = 0
                          THEN DefaultSectionLoops ELSE Get(max_loops_state)
         IN IF next_count >= loop_ceiling \/ next_count >= HardSectionLimit
            THEN [search_query |-> None,
                  section_is_sufficient |-> Some(TRUE),
                  section_follow_up_queries |-> <<>>,
                  section_research_count |-> next_count + ForcedCountStep]
            ELSE [search_query |-> Some(<<Head(follow_ups)>>),
                  section_is_sufficient |-> None,
                  section_follow_up_queries |-> Tail(follow_ups),
                  section_research_count |-> next_count]

\* The sections whose research is followed.
ResearchedSections ==
    { ReportSection("A", "about A", TRUE, 1500),
      ReportSection("B", "about B", FALSE, 1000) }

\* The normalized queries executed before this section's research.
ExecutedBefore ==
    SUBSET { query_key(Query(<<"alpha research">>, FALSE, FALSE)),
             query_key(Query(<<"beta research">>, FALSE, FALSE)),
             query_lower(name_fallback_query(
                            ReportSection("A", "about A", TRUE, 1500))) }

\* The follow-up queries a section reflection can leave in the state.
FollowUpLists ==
    { <<>>,
      <<Query(<<"gamma research">>, TRUE, FALSE)>>,
      <<Query(<<"gamma research">>, TRUE, FALSE),
        Query(<<"beta research">>, FALSE, FALSE)>> }

\* Values of max_section_research_loops up to MaxSectionLoops are tried.
MaxSectionLoops == 3

\* Values of research_loop_count and max_research_loops of the outer loop.
OuterLoopCounts == {None, Some(0), Some(MaxSectionLoops)}

\* The state in which the research of a section starts
\* (generate_section_queries), or in which evaluate_section_research is
\* called for the first or the second time with any verdict, follow-up
\* queries and ceiling in the state.
SectionResearchInit ==
    /\ pc = "idle"
    /\ prev_node = "START"
    /\ last_update = {}
    /\ steps = 0
    /\ search_query = <<>>
    /\ initial_search_query_count = None
    /\ rag_resources = <<>>
    /\ rag_documents = <<>>
    /\ web_research_result = <<>>
    /\ is_sufficient = "<false>"
    /\ follow_up_queries = <<>>
    /\ research_loop_count \in OuterLoopCounts
    /\ max_research_loops \in OuterLoopCounts
    /\ configurable = [max_research_loops |-> Some(DefaultMaxLoops),
                       number_of_initial_queries |-> NumberOfInitialQueries]
    /\ rag_config = RagConfig("", "", "", TRUE)
    /\ continuations = 0
    /\ messages = << <<"detailed report">> >>
    /\ is_long_report = Some(TRUE)
    /\ target_word_count = Some(DefaultTargetWordCount)
    /\ report_plan = Some(generate_report_plan(
                            PlanResp("text", None, None, None, "absent", <<>>),
                            Some(DefaultTargetWordCount)))
    /\ plan_response = None
    /\ final_report = None
    /\ completed_sections = <<>>
    /\ sections_completed_count = None
    /\ current_section_index = None
    /\ next_section_index = None
    /\ processing_complete = FALSE
    /\ external_calls = {}
    /\ failed_calls = {}
    /\ report_prev = "get_next_section"
    /\ current_section \in {None} \cup { Some(x) : x \in ResearchedSections }
    /\ executed_queries \in ExecutedBefore
    \* retrieval saw the executed queries and, if this section was
    \* researched before on the except path, its fallback query
    /\ issued_queries \in
         {executed_queries}
         \cup (IF current_section = None THEN {}
               ELSE { executed_queries
                        \cup { query_key(description_fallback_query(
                                            Get(current_section))) } })
    /\ retrieval_queries = <<>>
    /\ reports = <<>>
    /\ \/ /\ report_pc = "generate_section_queries"
          /\ section_is_sufficient = FALSE
          /\ section_follow_up_queries = <<>>
          /\ section_research_count = 0
          /\ max_section_research_loops = None
          /\ extra_research = 0
       \/ /\ report_pc = "evaluate_section_research"
          /\ section_is_sufficient \in BOOLEAN
          /\ section_follow_up_queries \in FollowUpLists
          /\ section_research_count \in {0, 1}
          /\ extra_research = section_research_count
          /\ max_section_research_loops \in
               {None} \cup { Some(n) : n \in 0..MaxSectionLoops }

\* generate_section_queries, then the research of its queries.
GenerateSectionQueries ==
    /\ report_pc = "generate_section_queries"
    /\ \E reply \in QueryReplies :
         LET returned == generate_section_queries(current_section, reply,
                                                executed_queries)
         IN /\ search_query' = returned.search_query
            /\ executed_queries' = returned.executed_queries
            /\ IF returned.researched
               THEN /\ section_research_count' = 0
                    /\ section_is_sufficient' = FALSE
                    /\ section_follow_up_queries' = <<>>
                    /\ max_section_research_loops' = Some(DefaultSectionLoops)
                    /\ external_calls' = {"generator"}
               ELSE /\ external_calls' = {}
                    /\ UNCHANGED <<section_research_count,
                                   section_is_sufficient,
                                   section_follow_up_queries,
                                   max_section_research_loops>>
    /\ failed_calls' = {}
    /\ extra_research' = 0
    /\ report_pc' = "section_research"
    /\ report_prev' = "generate_section_queries"
    /\ UNCHANGED <<reports,
                   messages, pc, prev_node, last_update, steps,
                   initial_search_query_count, rag_resources, rag_documents,
                   web_research_result, is_sufficient, follow_up_queries,
                   research_loop_count, max_research_loops, configurable,
                   rag_config, continuations, is_long_report,
                   target_word_count, report_plan, current_section,
                   completed_sections, sections_completed_count,
                   current_section_index, next_section_index,
                   processing_complete, plan_response, final_report,
                   retrieval_queries, issued_queries>>

\* The research of the section's search_query: every query is handed to
\* retrieval; then section_reflection.
SectionResearch ==
    /\ report_pc = "section_research"
    /\ retrieval_queries' = search_query
    /\ issued_queries' = issued_queries \cup QueryKeys(search_query)
    /\ extra_research' = IF report_prev = "continue_section_research"
                         THEN extra_research + 1 ELSE extra_research
    /\ external_calls' = IF search_query = <<>> THEN {} ELSE {"retrieval"}
    /\ failed_calls' = {}
    /\ report_pc' = "section_reflection"
    /\ report_prev' = "section_research"
    /\ UNCHANGED <<reports,
                   messages, graph_vars, is_long_report, target_word_count,
                   report_plan, current_section, completed_sections,
                   sections_completed_count, current_section_index,
                   next_section_index, processing_complete, plan_response,
                   final_report, executed_queries, section_is_sufficient,
                   section_follow_up_queries, section_research_count,
                   max_section_research_loops>>

\* section_reflection, then the router evaluate_section_research.
SectionReflection ==
    /\ report_pc = "section_reflection"
    /\ LET returned == section_reflection(current_section)
       IN /\ section_is_sufficient' = returned.section_is_sufficient
          /\ section_follow_up_queries' = returned.section_follow_up_queries
    /\ external_calls' = {}
    /\ failed_calls' = {}
    /\ report_pc' = "evaluate_section_research"
    /\ report_prev' = "section_reflection"
    /\ UNCHANGED <<reports,
                   messages, graph_vars, is_long_report, target_word_count,
                   report_plan, current_section, completed_sections,
                   sections_completed_count, current_section_index,
                   next_section_index, processing_complete, plan_response,
                   final_report, executed_queries, section_research_count,
                   max_section_research_loops, retrieval_queries,
                   issued_queries, extra_research>>

\* The router evaluate_section_research.
EvaluateSectionResearch ==
    /\ report_pc = "evaluate_section_research"
    /\ report_pc' = evaluate_section_research(current_section,
                        section_is_sufficient, section_follow_up_queries,
                        section_research_count, max_section_research_loops)
    /\ report_prev' = "evaluate_section_research"
    /\ external_calls' = {}
    /\ failed_calls' = {}
    /\ UNCHANGED <<messages, graph_vars, section_vars, is_long_report,
                   target_word_count, report_plan, current_section,
                   completed_sections, sections_completed_count,
                   current_section_index, next_section_index,
                   processing_complete, plan_response, final_report>>

\* continue_section_research, then the research of its query.
ContinueSectionResearch ==
    /\ report_pc = "continue_section_research"
    /\ LET returned == continue_section_research(current_section,
                         section_follow_up_queries, section_research_count,
                         max_section_research_loops)
       IN /\ search_query' = IF returned.search_query = None THEN search_query
                             ELSE Get(returned.search_query)
          /\ section_is_sufficient' =
               IF returned.section_is_sufficient = None
               THEN section_is_sufficient
               ELSE Get(returned.section_is_sufficient)
          /\ section_follow_up_queries' = returned.section_follow_up_queries
          /\ section_research_count' = returned.section_research_count
    /\ external_calls' = {}
    /\ failed_calls' = {}
    /\ report_pc' = "section_research"
    /\ report_prev' = "continue_section_research"
    /\ UNCHANGED <<reports,
                   messages, pc, prev_node, last_update, steps,
                   initial_search_query_count, rag_resources, rag_documents,
                   web_research_result, is_sufficient, follow_up_queries,
                   research_loop_count, max_research_loops, configurable,
                   rag_config, continuations, is_long_report,
                   target_word_count, report_plan, current_section,
                   completed_sections, sections_completed_count,
                   current_section_index, next_section_index,
                   processing_complete, plan_response, final_report,
                   executed_queries, max_section_research_loops,
                   retrieval_queries, issued_queries, extra_research>>

SectionResearchNext ==
    \/ GenerateSectionQueries
    \/ SectionResearch
    \/ SectionReflection
    \/ EvaluateSectionResearch
    \/ ContinueSectionResearch
    \/ WriteSectionContent

SectionResearchSpec == SectionResearchInit /\ [][SectionResearchNext]_vars

\* ------------------------------------------ claims: the section processor
\* The index process_next_section resolves: the caller's next-index cursor
\* if there is one, else the current index.
ResolvedIndex ==
    IF next_section_index # None THEN Get(next_section_index)
    ELSE IF current_section_index # None THEN Get(current_section_index)
    ELSE 0

\* process_next_section is about to run on a section of the plan.
SectionResolved ==
    /\ report_pc = "process_section"
    /\ report_plan # None
    /\ ResolvedIndex < Len(Plan.sections)

\* C16: a process_next_section step with a resolved index i below the
\* number of sections completes exactly plan.sections[i]: completed_sections
\* grows by that one entry, next_section_index becomes i + 1, and no other
\* section of the plan changes.
C16_ProcessCompletesExactlyOne ==
    [][(SectionResolved /\ report_pc' # "aborted") =>
         LET i == ResolvedIndex
             n == Len(completed_sections)
             plan_after == Get(report_plan')
         IN /\ Len(completed_sections') = n + 1
            /\ SubSeq(completed_sections', 1, n) = completed_sections
            /\ completed_sections'[n + 1].name = Plan.sections[i + 1].name
            /\ completed_sections'[n + 1].completed
            /\ next_section_index' = Some(i + 1)
            /\ Len(plan_after.sections) = Len(Plan.sections)
            /\ \A j \in DOMAIN Plan.sections :
                 j # i + 1 => plan_after.sections[j] = Plan.sections[j]
            /\ plan_after.sections[i + 1] = completed_sections'[n + 1]
      ]_vars

\* The second section of a plan (B, A) has just been processed.
C16_Witness ==
    /\ report_prev = "process_section"
    /\ SectionNames(completed_sections) = <<"B", "A">>
    /\ completed_sections[2].content = "generated text"
    /\ next_section_index = Some(2)
    /\ Plan.sections[2].completed

\* C17: a Section Processor step on a section whose name is already in
\* completed_sections adds no entry of that name and calls neither the
\* generator nor retrieval.
C17_ProcessorIdempotent ==
    [][(\/ /\ SectionResolved
           /\ Plan.sections[ResolvedIndex + 1].name
                \in CompletedNames(completed_sections)
        \/ /\ report_pc = "write_section_content"
           /\ current_section # None
           /\ Get(current_section).name \in CompletedNames(completed_sections))
       => /\ \A k \in DOMAIN completed_sections' :
               k > Len(completed_sections) =>
                 completed_sections'[k].name
                   \notin CompletedNames(completed_sections)
          /\ external_calls' = {}
      ]_vars

\* C18: a process_next_section step whose resolved index is at or past the
\* end of the plan (or that has no plan) reports processing_complete, makes
\* no generator or retrieval call and leaves completed_sections,
\* sections_completed_count and both cursors as they were.
C18_NoMoreSectionsSignal ==
    [][(/\ report_pc = "process_section"
        /\ report_plan = None \/ ResolvedIndex >= Len(Plan.sections))
       => /\ processing_complete'
          /\ external_calls' = {}
          /\ UNCHANGED <<completed_sections, sections_completed_count,
                         current_section_index, next_section_index>>
      ]_vars

\* The processor was run on a plan without sections.
C18_Witness ==
    /\ report_prev = "process_section"
    /\ Plan.sections = <<>>
    /\ processing_complete
    /\ completed_sections = <<>>
    /\ sections_completed_count = Some(0)
    /\ report_pc = "compile_report"

\* C19: after planning and after every process_next_section step,
\* sections_completed_count is the length of completed_sections.
C19_CountIsLengthOfCompleted ==
    (report_prev \in {"enhanced_generate_report_plan", "process_section",
                      "compile_report"})
    => sections_completed_count = Some(Len(completed_sections))

\* Three sections have been processed.
C19_Witness ==
    /\ report_prev = "process_section"
    /\ report_pc # "aborted"
    /\ Len(completed_sections) = 3
    /\ sections_completed_count = Some(3)

\* C20: completed_sections is append-only: a Section Processor step
\* (process_next_section or write_section_content) keeps every entry at
\* its position and never shortens the list.
C20_CompletedAppendOnly ==
    [][(report_pc \in {"process_section", "write_section_content"}) =>
         /\ Len(completed_sections') >= Len(completed_sections)
         /\ SubSeq(completed_sections', 1, Len(completed_sections))
              = completed_sections
      ]_vars

\* ----------------------------------- claims: failures, order, the compiler
\* The section a section-processor step works on.
ProcessedSection ==
    IF report_pc = "process_section" THEN Plan.sections[ResolvedIndex + 1]
    ELSE Get(current_section)

\* C21: a generator or retrieval failure while a section is processed
\* (process_next_section, write_section_content) does not stop the step: it
\* returns normally, the section is appended to completed_sections as
\* completed, and after a generator failure its content is the marked
\* placeholder.
C21_FailureDegradesToPlaceholder ==
    [][(/\ report_pc \in {"process_section", "write_section_content"}
        /\ failed_calls' # {})
       => (/\ report_pc' # "aborted"
           /\ completed_sections' # <<>>
           /\ LET done == completed_sections'[Len(completed_sections')]
              IN /\ done.name = ProcessedSection.name
                 /\ done.completed
                 /\ ("generator" \in failed_calls'
                       => done.content = GenerationFailed))]_vars

\* The run is in the enhanced pipeline (planner, section processor,
\* compiler of enhanced_long_report_nodes.py).
EnhancedPipeline ==
    report_prev \in {"enhanced_generate_report_plan", "process_section",
                     "compile_report"}

\* The k-th completed section is the k-th section of the plan.
CompletedInPlanOrder ==
    /\ Len(completed_sections) <= Len(Plan.sections)
    /\ \A k \in DOMAIN completed_sections :
         completed_sections[k] = Plan.sections[k]

\* C22: from a freshly generated plan of n sections the loop
\* has_more_sections_to_process -> process_next_section completes the
\* sections in plan order and eventually routes to compile_report, with
\* exactly n sections processed by then.
C22_CompletesAllInPlanOrder ==
    /\ [](EnhancedPipeline => CompletedInPlanOrder)
    /\ []((EnhancedPipeline /\ report_pc = "compile_report")
            => Len(completed_sections) = Len(Plan.sections))
    /\ (report_prev = "enhanced_generate_report_plan"
          ~> report_pc = "compile_report")

\* A compiler has returned a report for a plan.
Compiled ==
    /\ report_prev \in {"compile_report", "finalize_long_report"}
    /\ report_plan # None
    /\ final_report # None

IsSectionBlock(part) ==
    part.kind \in {"section", "content", "missing_section"}

\* The section content blocks of a compiled report, in its order.
SectionBlocks(report) == SelectSeq(report, IsSectionBlock)

\* No completed section of that name has content.
NoCompletedContent(name) ==
    \A k \in DOMAIN completed_sections :
      completed_sections[k].name = name => completed_sections[k].content = ""

\* C23: the compiled report has exactly len(plan.sections) section content
\* blocks, and a plan section without completed content (missing from
\* completed_sections, or with empty content) appears as a placeholder
\* that names the section.
C23_OneBlockPerPlanSection ==
    Compiled =>
      LET blocks == SectionBlocks(Get(final_report))
      IN /\ Len(blocks) = Len(Plan.sections)
         /\ \A i \in DOMAIN Plan.sections :
              NoCompletedContent(Plan.sections[i].name)
                => /\ blocks[i].kind = "missing_section"
                   /\ blocks[i].name = Plan.sections[i].name

\* completed_sections in another processing order.
Reordered(completed) ==
    { [k \in DOMAIN completed |-> completed[p[k]]] :
        p \in Permutations(DOMAIN completed) }

\* C24: the compiler emits the section contents in plan order, looked up by
\* name: for every permutation of completed_sections the compiled report
\* is the one the compiler returned.
C24_CompiledInPlanOrder ==
    Compiled =>
      \A other \in Reordered(completed_sections) :
        IF report_prev = "compile_report"
        THEN compile_enhanced_final_report(report_plan, other) = final_report
        ELSE compile_final_long_report(report_plan, other) = Get(final_report)

\* The result a compiler returned is its explicit failure result: the
\* failure message, and for compile_enhanced_final_report no final_report.
FailureResult ==
    IF report_prev = "compile_report"
    THEN final_report = None /\ messages[Len(messages)] = NoReportPlan
    ELSE \E i \in DOMAIN Get(final_report) :
           Get(final_report)[i].kind = "failure"

\* The report a compiler returned is built from the plan: it starts with
\* the plan's title and abstract.
BuiltFromPlan ==
    /\ final_report # None
    /\ Len(Get(final_report)) >= 2
    /\ Get(final_report)[1] = ReportPart("title", "", Plan.title)
    /\ Get(final_report)[2] = ReportPart("abstract", "", Plan.abstract)

\* C25: a compiler returns its failure result exactly when there is no
\* report plan: with a plan, even with no completed section, it returns a
\* report built from the plan, and without one the failure message and no
\* partial report.
C25_FailureOnlyWithoutPlan ==
    (report_prev \in {"compile_report", "finalize_long_report"})
      => IF report_plan = None
         THEN FailureResult
         ELSE ~FailureResult /\ BuiltFromPlan

\* Every section of the plan has been processed.
AllSectionsProcessed ==
    \A i \in DOMAIN Plan.sections :
      \E k \in DOMAIN completed_sections :
        completed_sections[k].name = Plan.sections[i].name

\* The names the compiled report carries as section headings.
Headings(report) ==
    { report[i].name : i \in { j \in DOMAIN report :
                                 report[j].kind \in {"section",
                                                     "missing_section"} } }

\* C26: after all sections of the plan have been processed, the compiled
\* report has every plan section's name as a heading, whatever the
\* generator returned as content.
C26_EverySectionNameIsHeading ==
    (Compiled /\ AllSectionsProcessed)
      => \A i \in DOMAIN Plan.sections :
           Plan.sections[i].name \in Headings(Get(final_report))

\* ------------------------------------------- claims: the section research
\* C27: within one report no query is handed to retrieval twice after
\* normalization (lower-casing, trimming): the queries a step hands to
\* retrieval are pairwise distinct after normalization and none of them
\* was handed to retrieval before.
C27_NoQueryIssuedTwice ==
    [][(/\ report_pc \in {"process_section", "section_research"}
        /\ report_pc' # "aborted")
       => (/\ \A i \in DOMAIN retrieval_queries' :
                query_key(retrieval_queries'[i]) \notin issued_queries
           /\ \A i, j \in DOMAIN retrieval_queries' :
                i # j => query_key(retrieval_queries'[i])
                           # query_key(retrieval_queries'[j]))]_vars

\* generate_section_queries runs for a section that requires research.
QueriesGenerated ==
    /\ report_pc = "generate_section_queries"
    /\ current_section # None
    /\ Get(current_section).requires_research

\* C28: for a section that requires research, section query generation
\* yields at least one query; when none of the generator's candidates is
\* left (all were executed before), it yields exactly one fallback query
\* built from the section's name and description.
C28_AtLeastOneQuery ==
    [][QueriesGenerated
       => (/\ search_query' # <<>>
           /\ (\A i \in DOMAIN search_query' :
                 search_query'[i] \notin GeneratedQueries)
                => search_query' =
                     <<description_fallback_query(Get(current_section))>>)
      ]_vars

\* C29: for each section, the research sub-loop (evaluate_section_research,
\* continue_section_research) runs at most one extra research iteration
\* before write_section_content, for every verdict, list of follow-up
\* queries and value of max_section_research_loops in the state, and
\* whatever research_loop_count and max_research_loops are.
C29_AtMostOneExtraResearch ==
    /\ extra_research <= 1
    /\ (report_pc = "continue_section_research" => extra_research = 0)

\* An extra research iteration ran on follow-up queries left by a
\* reflection, under a ceiling of MaxSectionLoops, and the section is
\* about to be written.
C29_Witness ==
    /\ report_pc = "write_section_content"
    /\ report_prev = "evaluate_section_research"
    /\ extra_research = 1
    /\ section_research_count = 1
    /\ max_section_research_loops = Some(MaxSectionLoops)
    /\ research_loop_count = Some(MaxSectionLoops)

\* ------------------------------------------------- claims: the plan frame
\* Section i of the plan is changed at most in its content and its flag.
OnlyAnnotated(before, after) ==
    /\ after.name = before.name
    /\ after.description = before.description
    /\ after.requires_research = before.requires_research
    /\ after.word_count_target = before.word_count_target

\* C30: once the planner has returned a plan, no later step
\* (process_next_section with its router, the compiler) changes the
\* number, the order or the names of plan.sections: a step changes at most
\* the content and the completed flag of a section.
C30_PlanSectionsOnlyAnnotated ==
    [][(report_plan # None)
       => (/\ report_plan' # None
           /\ Get(report_plan').title = Plan.title
           /\ Get(report_plan').abstract = Plan.abstract
           /\ Len(Get(report_plan').sections) = Len(Plan.sections)
           /\ \A i \in DOMAIN Plan.sections :
                OnlyAnnotated(Plan.sections[i],
                              Get(report_plan').sections[i]))]_vars

\* A plan of MaxSections sections went through the processor and the
\* compiler, and its sections carry the generated content.
C30_Witness ==
    /\ report_pc = "END"
    /\ report_prev = "compile_report"
    /\ Len(Plan.sections) = MaxSections
    /\ SectionNames(Plan.sections) = <<"A", "B", "A">>
    /\ \A i \in DOMAIN Plan.sections :
         /\ Plan.sections[i].completed
         /\ Plan.sections[i].content = "generated text"

\* ------------------------------------------- claims: updates and in-place
\* The keys of the update a long-report node returns, for the state it is
\* called with.
update_keys(node, plan, index, section, completed) ==
    CASE node = "process_section" ->
           IF no_more_sections(plan, index) THEN {"processing_complete"}
           ELSE {"current_section_index", "next_section_index",
                 "sections_completed_count", "completed_sections",
                 "section_name", "section_description", "total_sections",
                 "process_section"}
      [] node = "compile_report" ->
           IF plan = None THEN {"messages", "processing_complete"}
           ELSE {"final_report", "messages", "processing_complete"}
      [] node = "get_next_section" ->
           IF plan = None THEN {"current_section"}
           ELSE {"current_section", "section_processing_count"}
      [] node = "write_section_content" ->
           IF section = None \/ Get(section).name \in CompletedNames(completed)
           THEN {"current_section", "completed_sections",
                 "section_research_count", "section_is_sufficient"}
           ELSE {"current_section", "completed_sections",
                 "section_research_count", "section_is_sufficient",
                 "section_knowledge_gap", "section_follow_up_queries"}
      [] node = "finalize_long_report" ->
           IF plan = None \/ completed = <<>> THEN {"final_report"}
           ELSE {"final_report", "total_word_count"}
      [] OTHER -> {}

\* The keys of OverallState whose value differs after the step.
ChangedKeys ==
    (IF report_plan' # report_plan THEN {"report_plan"} ELSE {})
    \cup (IF current_section' # current_section
          THEN {"current_section"} ELSE {})
    \cup (IF completed_sections' # completed_sections
          THEN {"completed_sections"} ELSE {})
    \cup (IF sections_completed_count' # sections_completed_count
          THEN {"sections_completed_count"} ELSE {})
    \cup (IF current_section_index' # current_section_index
          THEN {"current_section_index"} ELSE {})
    \cup (IF next_section_index' # next_section_index
          THEN {"next_section_index"} ELSE {})
    \cup (IF processing_complete' # processing_complete
          THEN {"processing_complete"} ELSE {})
    \cup (IF final_report' # final_report THEN {"final_report"} ELSE {})
    \cup (IF messages' # messages THEN {"messages"} ELSE {})
    \cup (IF section_research_count' # section_research_count
          THEN {"section_research_count"} ELSE {})
    \cup (IF section_is_sufficient' # section_is_sufficient
          THEN {"section_is_sufficient"} ELSE {})
    \cup (IF section_follow_up_queries' # section_follow_up_queries
          THEN {"section_follow_up_queries"} ELSE {})
    \cup (IF executed_queries' # executed_queries
          THEN {"executed_queries"} ELSE {})

\* C31: every step communicates its changes only through the update it
\* returns: a key of the state that the returned update does not name has
\* the same value after the step, so no step changes in place the state or
\* a structure shared through it (the plan's section objects, the
\* completed_sections list, the counters).
C31_ChangesOnlyThroughUpdate ==
    [][ChangedKeys \subseteq
         update_keys(report_pc, report_plan, ResolvedIndex, current_section,
                     completed_sections)
      ]_vars

\* ------------------------------------------- report workflows side by side
\* Two report workflows run at the same time.
ReportIds == {1, 2}

\* The sections every workflow researches, in the order of its plan.
WorkflowSections ==
    << ReportSection("A", "about A", TRUE, 1500),
       ReportSection("B", "about B", FALSE, 1000),
       ReportSection("C", "about C", TRUE, 1500) >>

\* The generator's replies to the query prompt that the workflows get.
WorkflowReplies ==
    { [kind |-> "text", queries |-> <<>>],
      [kind |-> "json", queries |-> <<>>],
      [kind |-> "json",
       queries |-> <<Query(<<"alpha research">>, FALSE, FALSE)>>],
      [kind |-> "json",
       queries |-> <<Query(<<"alpha research">>, TRUE, TRUE),
                     Query(<<"beta research">>, FALSE, FALSE)>>] }

\* The executed_queries a caller's input can carry: the key is absent, or
\* a list from an earlier turn.
WorkflowInputs ==
    { {}, {query_key(Query(<<"beta research">>, FALSE, FALSE))} }

\* A history kept once for the whole process: what every workflow
\* recorded.
query_history_process_wide(all, r) ==
    UNION { all[q].executed_queries : q \in DOMAIN all }

\* executed_queries = state.get("executed_queries", set()), made a set of
\* its own if the state holds a list: the history of the state the call
\* was given.
query_history(all, r) == all[r].executed_queries

\* Each workflow has its own OverallState; of it, the cursor over the
\* plan, the node that runs next, search_query and executed_queries.
\* reply, history_before and recorded remember the reply of the
\* workflow's last generate_section_queries call, what the workflow had
\* recorded before that call and what its own calls recorded in all.
WorkflowsInit ==
    /\ GraphIdle
    /\ ReportIdle
    /\ executed_queries = {}
    /\ section_is_sufficient = FALSE
    /\ section_follow_up_queries = <<>>
    /\ section_research_count = 0
    /\ max_section_research_loops = <<>>
    /\ retrieval_queries = <<>>
    /\ issued_queries = {}
    /\ extra_research = 0
    /\ messages = << <<"detailed report">> >>
    /\ reports \in
         [ReportIds ->
            { [node |-> "generate_section_queries", index |-> 1,
               search_query |-> <<>>, executed_queries |-> input,
               reply |-> [kind |-> "text", queries |-> <<>>],
               history_before |-> input, recorded |-> input]
              : input \in WorkflowInputs }]

\* generate_section_queries in workflow r, for the section at its cursor.
WorkflowGenerateSectionQueries(r) ==
    /\ reports[r].node = "generate_section_queries"
    /\ \E reply \in WorkflowReplies :
         LET history == query_history(reports, r)
             returned ==
               generate_section_queries(
                   Some(WorkflowSections[reports[r].index]), reply, history)
         IN reports' =
              [reports EXCEPT ![r] =
                 [@ EXCEPT !.node = "section_research",
                           !.search_query = returned.search_query,
                           !.executed_queries = returned.executed_queries,
                           !.reply = reply,
                           !.history_before = reports[r].recorded,
                           !.recorded = reports[r].recorded
                               \cup (returned.executed_queries \ history)]]
    /\ UNCHANGED <<messages, graph_vars, report_vars, executed_queries,
                   section_is_sufficient, section_follow_up_queries,
                   section_research_count, max_section_research_loops,
                   retrieval_queries, issued_queries, extra_research>>

\* The rest of the section's research in workflow r (retrieval, reflection,
\* writing), none of which reads or writes executed_queries; then the
\* next section of the plan, or the end of the report.
WorkflowFinishSection(r) ==
    /\ reports[r].node = "section_research"
    /\ reports' =
         [reports EXCEPT ![r] =
            IF reports[r].index < Len(WorkflowSections)
            THEN [@ EXCEPT !.node = "generate_section_queries",
                           !.index = @ + 1]
            ELSE [@ EXCEPT !.node = "END"]]
    /\ UNCHANGED <<messages, graph_vars, report_vars, executed_queries,
                   section_is_sufficient, section_follow_up_queries,
                   section_research_count, max_section_research_loops,
                   retrieval_queries, issued_queries, extra_research>>

\* Any workflow takes its next step: every interleaving.
WorkflowsNext ==
    \E r \in ReportIds :
       \/ WorkflowGenerateSectionQueries(r)
       \/ WorkflowFinishSection(r)

WorkflowsSpec == WorkflowsInit /\ [][WorkflowsNext]_vars

\* ------------------------------------------- claims: concurrent workflows
\* C32: the executed-query set is scoped to one report: in every
\* interleaving of two report workflows, a report's executed_queries holds
\* only what its own input and its own calls recorded, and the queries a
\* call returns are those it would return on the report's own history, so
\* no query of the other report is in the set or filters a candidate out.
C32_ExecutedQueriesScopedToReport ==
    \A r \in DOMAIN reports :
       /\ reports[r].executed_queries \subseteq reports[r].recorded
       /\ reports[r].node = "section_research" =>
            reports[r].search_query =
              generate_section_queries(
                  Some(WorkflowSections[reports[r].index]),
                  reports[r].reply,
                  reports[r].history_before).search_query

\* Workflow 1 recorded "alpha research"; workflow 2, whose set does not
\* hold it, was offered the same query afterwards and searched for it.
C32_Witness ==
    /\ reports # <<>>
    /\ query_key(Query(<<"alpha research">>, FALSE, FALSE))
         \in reports[1].executed_queries
    /\ reports[1].node = "END"
    /\ reports[2].node = "section_research"
    /\ reports[2].index = 1
    /\ reports[2].reply.queries # <<>>
    /\ query_key(reports[2].reply.queries[1])
         = query_key(Query(<<"alpha research">>, FALSE, FALSE))
    /\ reports[2].search_query # <<>>
    /\ query_key(reports[2].search_query[1])
         = query_key(Query(<<"alpha research">>, FALSE, FALSE))

EventFields ==
    {"current_section_index", "total_sections", "sections_completed_count",
     "section_name", "section_description"}

DisplayedSectionNumber(index) == Get(index) + 1

\* C35: in a forward-driven run from a fresh plan, after each step that
\* processes a section, sections_completed_count is the 1-based number of
\* that section (its index + 1), it is one more than before the step, and
\* the displayed section number is at most total_sections.
C35_CountIsSectionNumber ==
    [][(EnhancedPipeline /\ SectionResolved /\ report_pc' # "aborted") =>
         /\ sections_completed_count' = Some(ResolvedIndex + 1)
         /\ sections_completed_count' = Some(Get(sections_completed_count) + 1)
         /\ DisplayedSectionNumber(current_section_index')
              = Get(sections_completed_count')
         /\ DisplayedSectionNumber(current_section_index')
              <= Len(Plan.sections)
      ]_vars

\* The last of three sections has been processed: section 3 of 3 is
\* displayed and three sections are counted.
C35_Witness ==
    /\ report_prev = "process_section"
    /\ report_pc = "compile_report"
    /\ Len(Plan.sections) = 3
    /\ DisplayedSectionNumber(current_section_index) = 3
    /\ sections_completed_count = Some(3)
    /\ ~processing_complete

\* ----------------------------------------- claims: the standard graph's run
\* recursion_limit=15 of the run's configuration.
RecursionLimit == 15

\* C36: with max_research_loops 0, 1 or 2, a run of the standard research
\* graph has executed fewer than 15 nodes at every point up to END, for
\* every generator output and every RAG/Web routing outcome: the
\* recursion limit of 15 is never hit.
C36_StepsBelowRecursionLimit ==
    EffectiveCeiling \in 0..2 => steps < RecursionLimit

\* The longest run: two research rounds, both through RAG retrieval and
\* the web fallback, then the answer.
C36_Witness ==
    /\ pc = "END"
    /\ EffectiveCeiling = 2
    /\ research_loop_count = Some(2)
    /\ rag_documents = <<>>
    /\ steps = 9

\* C37: after continue_research the next retrieval step is web_research
\* and never rag_retrieve: a follow-up round does not re-enter RAG
\* retrieval.
C37_FollowUpSkipsRag ==
    prev_node = "continue_research" => pc # "rag_retrieve"

\* ------------------------------------------------- the router on any state
\* Plans of 0 to MaxSections sections, every other one requiring research.
RouterPlans ==
    {None}
    \cup { Some(ReportPlan("T", "abs",
                           [i \in 1..n |->
                              ReportSection("A", "about A", i % 2 = 1,
                                            DefaultSectionTarget)],
                           DefaultTargetWordCount)) : n \in 0..MaxSections }

\* A cursor of the state: absent (None), or an index up to one past the
\* longest plan.
Cursors == {None} \cup { Some(i) : i \in 0..(MaxSections + 1) }

\* The states has_more_sections_to_process can be called with: any plan
\* and any pair of cursors, a fresh run or a resumed one;
\* processing_complete is set only where process_next_section sets it.
RouterInit ==
    /\ GraphIdle
    /\ SectionIdle
    /\ messages = << <<"detailed report">> >>
    /\ is_long_report = Some(TRUE)
    /\ target_word_count = Some(DefaultTargetWordCount)
    /\ plan_response = None
    /\ final_report = None
    /\ current_section = None
    /\ completed_sections = <<>>
    /\ sections_completed_count = Some(0)
    /\ external_calls = {}
    /\ failed_calls = {}
    /\ report_prev = "enhanced_generate_report_plan"
    /\ report_pc = "has_more_sections_to_process"
    /\ report_plan \in RouterPlans
    /\ current_section_index \in Cursors
    /\ next_section_index \in Cursors
    /\ processing_complete \in
         {FALSE}
         \cup (IF no_more_sections(report_plan,
                      section_index_to_process(next_section_index,
                                               current_section_index))
               THEN {TRUE} ELSE {})

\* The router has_more_sections_to_process, called on the state as it is.
HasMoreSectionsToProcess ==
    /\ report_pc = "has_more_sections_to_process"
    /\ report_pc' = has_more_sections_to_process(processing_complete,
                        report_plan, next_section_index,
                        current_section_index)
    /\ report_prev' = "has_more_sections_to_process"
    /\ UNCHANGED <<messages, graph_vars, section_vars, is_long_report,
                   target_word_count, report_plan, current_section,
                   completed_sections, sections_completed_count,
                   current_section_index, next_section_index,
                   processing_complete, external_calls, failed_calls,
                   plan_response, final_report>>

RouterNext ==
    \/ HasMoreSectionsToProcess
    \/ ProcessNextSection
    \/ ProcessRaises
    \/ CompileEnhancedFinalReport

RouterSpec == RouterInit /\ [][RouterNext]_vars

\* ------------------------------------------ claims: router and processor
\* The router has run and chose the node that runs next.
Routed ==
    report_prev \in {"has_more_sections_to_process", "process_section"}

RetrievalNodes == {"rag_retrieve", "web_research"}

\* C39: in every run of the standard graph, finalize_answer comes after at
\* least one retrieval step and at least one reflection, and between two
\* consecutive reflections there is exactly one continue_research step,
\* followed by at least one retrieval step.  Stated over consecutive nodes
\* of the run: finalize_answer and continue_research are entered from
\* reflection only, reflection from a retrieval node only, and
\* continue_research and the retrieval nodes lead to a retrieval node or
\* (from a retrieval node) to reflection; at finalize_answer the reflections
\* counted and the nodes executed bear this out.
C39_RunStructure ==
    [][/\ pc' = "finalize_answer" =>
            /\ pc = "reflection"
            /\ prev_node \in RetrievalNodes
            /\ Count(research_loop_count') >= 1
            /\ steps' >= 3
       /\ pc' = "reflection" => pc \in RetrievalNodes
       /\ pc' = "continue_research" => pc = "reflection"
       /\ pc = "reflection" =>
            pc' \in {"finalize_answer", "continue_research", "aborted"}
       /\ pc = "continue_research" => pc' \in RetrievalNodes
       /\ pc \in RetrievalNodes =>
            pc' \in RetrievalNodes \cup {"reflection", "aborted"}
       /\ (pc = "rag_retrieve" /\ pc' \in RetrievalNodes) =>
            pc' = "web_research"
       /\ pc = "web_research" => pc' \in {"reflection", "aborted"}
      ]_vars

\* A run with two reflections: after the first, continue_research, RAG
\* retrieval and the web fallback ran, and the second reflection led to
\* finalize_answer.
C39_Witness ==
    /\ pc = "finalize_answer"
    /\ prev_node = "reflection"
    /\ research_loop_count = Some(2)
    /\ steps = 8
    /\ web_research_result # <<>>

====
